---- MODULE Spec2Model ----
(***************************************************************************)
(* A model of the soia C++ runtime (src/client/soia.h, src/e2e-test/soia.cc) *)
(*                                                                         *)
(*  - SpecKeyed : the keyed_items container (vector + open-addressing      *)
(*                index, vector_mutator protocol).                         *)
(*  - SpecCodec : ToBytes and Parse of numbers and strings (binary format). *)
(*  - SpecJson  : Parse of JSON text into int32_t and std::vector<int32_t>. *)
(***************************************************************************)
EXTENDS Integers, Sequences, FiniteSets, TLC

(***************************************************************************)
(* Bounds of the model.                                                    *)
(***************************************************************************)
\* Longest vector a keyed_items holds in the model.
MaxLen == 2
\* Item keys are 1..MaxKey; MaxKey + 1 is a key no item has.
MaxKey == 2
\* Largest argument passed to reserve().
MaxReserve == 2
\* append_range is called only while capacity() + range.size() stays below this.
MaxCapacity == 4
\* absl::Hash values of the keys are drawn from 0..MaxHash.
MaxHash == 1
\* Longest std::string that is serialized.
MaxStrLen == 3
\* Longest std::vector<int32_t> that is serialized.
MaxArrayLen == 4

(***************************************************************************)
(* Program constants.                                                      *)
(***************************************************************************)
\* std::numeric_limits<uint8_t>::max() and <uint16_t>::max() in GetSlotType.
Uint8Max == 255
Uint16Max == 65535
\* kNumSlotsPerItem in GetNumSlotsBytes.
kNumSlotsPerItem == 2

VARIABLES
  ki,       \* the keyed_items object the program works on
  hash,     \* absl::Hash<key_type>: seeded per process, fixed during a run
  op,       \* the name of the last call made on the object
  halted,   \* "running", "aborted" (an ABSL_CHECK failed), "hung" or "crashed"
  input,    \* the value handed to ToBytes: its type and its value
  byte_sink, \* the ByteSink of ToBytes once the value is appended
  result,   \* what Parse returned: a status and, when OK, the value
  phase,    \* "input", "encoded", "parsed" or "skipped"
  byte_source, \* the ByteSource that was read: its bytes, pos and error
  tokenizer, \* JsonTokenizer::State of the JSON text being parsed
  parse     \* top-level Parse of JSON: target type, position in the code, result

keyedVars == <<ki, hash, op, halted>>
codecVars == <<input, byte_sink, result, phase, byte_source>>
jsonVars == <<tokenizer, parse>>
vars == <<ki, hash, op, halted, input, byte_sink, result, phase, byte_source,
         tokenizer, parse>>

(***************************************************************************)
(* keyed_items<T, GetKey>                                                  *)
(***************************************************************************)
\* The serializer is not used: no value, no result.
NoValue == [type |-> "none", value |-> <<>>]
NoSink ==
  [data |-> <<>>, pos_ |-> 0, capacity_ |-> 0, overrun |-> FALSE,
   data_ |-> 0, dangling |-> FALSE]
NoResult == [ok |-> TRUE, value |-> <<>>, unmodelled |-> FALSE]
NoSource == [bytes |-> <<>>, pos |-> 0, error |-> FALSE, unmodelled |-> FALSE,
             keep_unrecognized_fields |-> FALSE]
\* absl::OkStatus()
OkStatus == [ok |-> TRUE, message |-> "", expected |-> "", found |-> "", position |-> 0]
\* No JSON is parsed: a tokenizer over the empty text, a parse that has returned.
NoTokenizer ==
  [chars |-> <<>>, beyond |-> "NUL", pos |-> 0, status |-> OkStatus,
   token_type |-> "kStrEnd", int_value |-> <<0, 0, 0, 0>>,
   uint_value |-> <<0, 0, 0, 0>>, float_value |-> <<>>, string_value |-> <<>>,
   fault |-> FALSE, unmodelled |-> FALSE, keep_unrecognized_fields_ |-> FALSE,
   first_status |-> OkStatus]
NoParse ==
  [target |-> "none", pc |-> "done", zero_state_ |-> TRUE, out |-> <<>>,
   steps |-> 0, status |-> OkStatus]

Keys == 1 .. MaxKey
\* The struct User of the tests, GetKey returns the id. An item is told from
\* another with the same id by its place in vector_, as a pointer tells it.
Items == [id : Keys]
GetKey(item) == item.id

Vectors == UNION {[1 .. n -> Items] : n \in 0 .. MaxLen}

\* Results of find_or_null: a pointer to vector_[i-1] is Ptr(i), i 1-based.
Ptr(i) == [kind |-> "ptr", index |-> i]
Null == [kind |-> "null", index |-> 0]
Diverges == [kind |-> "diverges", index |-> 0]
Crash == [kind |-> "crash", index |-> 0]
\* What an out-of-bounds read of vector_ (or a division by zero) may produce.
UndefinedOutcomes == {Null, Diverges, Crash} \cup {Ptr(i) : i \in 1 .. MaxLen}

\* keyed_items() = default, with the member initialisers of lines 422-431.
DefaultKeyedItems ==
  [vector_ |-> <<>>, capacity |-> 0, slots |-> <<>>, slot_type_ |-> "kUint8",
   being_mutated_ |-> FALSE, mutators |-> 0, state |-> "ok"]

SlotSize(slot_type) ==
  CASE slot_type = "kUint8" -> 1
    [] slot_type = "kUint16" -> 2
    [] slot_type = "kUint32" -> 4
    [] OTHER -> 8

\* slots_bytes_.size()
SlotsBytesSize(k) == Len(k.slots) * SlotSize(k.slot_type_)

GetSlotType(capacity) ==
  IF capacity <= Uint8Max THEN "kUint8"
  ELSE IF capacity <= Uint16Max THEN "kUint16"
  ELSE "kUint32"

GetNumSlotsBytes(capacity, slot_type) ==
  capacity * kNumSlotsPerItem * SlotSize(slot_type)

\* The slot the probe loop of PutSlot stops at (1-based), 0 when the table has
\* no empty slot and the loop never ends.
RECURSIVE PutSlotProbe(_, _, _)
PutSlotProbe(slots, slot_index, probes) ==
  IF slots[slot_index] = 0 THEN slot_index
  ELSE IF probes = Len(slots) THEN 0
  ELSE PutSlotProbe(slots, IF slot_index = Len(slots) THEN 1 ELSE slot_index + 1,
                    probes + 1)

\* PutSlot<SlotIntType>(key_hash, next_index) on a table [state, slots]: the
\* table after the call; state tells whether the call returned.
PutSlot(table, key_hash, next_index, slot_type) ==
  IF table.state # "ok" THEN table
  ELSE IF Len(table.slots) = 0 THEN [table EXCEPT !.state = "crash"]
  ELSE LET at == PutSlotProbe(table.slots, (key_hash % Len(table.slots)) + 1, 1) IN
       IF at = 0 THEN [table EXCEPT !.state = "diverges"]
       ELSE [table EXCEPT !.slots[at] = next_index % (2 ^ (8 * SlotSize(slot_type)))]

\* The loop of Rehash(slot_type, num_slots_bytes) from item i on.
RECURSIVE RehashFrom(_, _, _, _)
RehashFrom(table, vector, i, slot_type) ==
  IF i > Len(vector) THEN table
  ELSE RehashFrom(PutSlot(table, hash[GetKey(vector[i])], i, slot_type),
                  vector, i + 1, slot_type)

\* Rehash(slot_type, num_slots_bytes)
RehashWith(k, slot_type, num_slots_bytes) ==
  LET empty == [i \in 1 .. (num_slots_bytes \div SlotSize(slot_type)) |-> 0]
      table == RehashFrom([state |-> "ok", slots |-> empty], k.vector_, 1, slot_type) IN
  [k EXCEPT !.slot_type_ = slot_type, !.slots = table.slots, !.state = table.state]

\* Rehash()
Rehash(k) ==
  LET slot_type == GetSlotType(k.capacity) IN
  RehashWith(k, slot_type, GetNumSlotsBytes(k.capacity, slot_type))

\* MaybeRehash(): <<rehashed, container>>
MaybeRehash(k) ==
  LET slot_type == GetSlotType(k.capacity)
      num_slots_bytes == GetNumSlotsBytes(k.capacity, slot_type) IN
  IF slot_type = k.slot_type_ /\ num_slots_bytes = SlotsBytesSize(k)
  THEN <<FALSE, k>>
  ELSE <<TRUE, RehashWith(k, slot_type, num_slots_bytes)>>

\* std::vector<T>::push_back as libstdc++ grows it: the capacity doubles.
VectorPushBack(k, value) ==
  [k EXCEPT !.vector_ = Append(k.vector_, value),
            !.capacity = IF Len(k.vector_) < k.capacity THEN k.capacity
                         ELSE Len(k.vector_) + (IF Len(k.vector_) = 0 THEN 1 ELSE Len(k.vector_))]

\* std::vector<T>::reserve
VectorReserve(k, new_cap) ==
  [k EXCEPT !.capacity = IF new_cap > k.capacity THEN new_cap ELSE k.capacity]

\* The body of push_back after the precondition check.
PushBackImpl(k, value) ==
  LET pushed == VectorPushBack(k, value)
      maybe == MaybeRehash(pushed) IN
  IF maybe[1] THEN maybe[2]
  ELSE LET table == PutSlot([state |-> "ok", slots |-> pushed.slots],
                            hash[GetKey(value)], Len(pushed.vector_), pushed.slot_type_) IN
       [pushed EXCEPT !.slots = table.slots, !.state = table.state]

\* The body of reserve after the precondition check.
ReserveImpl(k, new_cap) == MaybeRehash(VectorReserve(k, new_cap))[2]

\* The probe loop of FindOrNull<SlotIntType>: the set of its possible outcomes.
RECURSIVE FindProbe(_, _, _, _)
FindProbe(k, key, slot_index, probes) ==
  LET slot == k.slots[slot_index] IN
  IF slot = 0 THEN {Null}
  ELSE IF slot > Len(k.vector_) THEN UndefinedOutcomes
  ELSE IF GetKey(k.vector_[slot]) = key THEN {Ptr(slot)}
  ELSE IF probes = Len(k.slots) THEN {Diverges}
  ELSE FindProbe(k, key, IF slot_index = Len(k.slots) THEN 1 ELSE slot_index + 1,
                 probes + 1)

FindOrNull(k, key) ==
  IF Len(k.slots) = 0 THEN UndefinedOutcomes
  ELSE FindProbe(k, key, (hash[key] % Len(k.slots)) + 1, 1)

\* find_or_null_impl after the precondition check.
FindOrNullImpl(k, key) ==
  IF Len(k.vector_) = 0 THEN {Null} ELSE FindOrNull(k, key)

\* std::vector<T>::operator=(const vector&) as libstdc++ does it: the storage
\* is kept when it is large enough, else one of exactly the new size is taken.
VectorCopyAssign(k, vector) ==
  [k EXCEPT !.vector_ = vector,
            !.capacity = IF Len(vector) > k.capacity THEN Len(vector) ELSE k.capacity]

\* A std::vector built from a range or a list has capacity = size; assigning
\* it by move hands over its storage.
VectorMoveAssign(k, vector, capacity) ==
  [k EXCEPT !.vector_ = vector, !.capacity = capacity]

\* The members a moved-from vector_ and slots_bytes_ are left with (empty).
MovedFrom(k) == [k EXCEPT !.vector_ = <<>>, !.capacity = 0, !.slots = <<>>]

\* keyed_items(const keyed_items& other)
CopyConstructed(other) ==
  [DefaultKeyedItems EXCEPT !.vector_ = other.vector_,
                            !.capacity = Len(other.vector_),
                            !.slots = other.slots,
                            !.slot_type_ = other.slot_type_]

\* keyed_items(keyed_items&& other): the new object
MoveConstructed(other) ==
  [DefaultKeyedItems EXCEPT !.vector_ = other.vector_,
                            !.capacity = other.capacity,
                            !.slots = other.slots,
                            !.slot_type_ = other.slot_type_]

\* operator=(const keyed_items& other) after the precondition checks
CopyAssignImpl(k, other) ==
  [VectorCopyAssign(k, other.vector_) EXCEPT !.slots = other.slots,
                                             !.slot_type_ = other.slot_type_]

\* operator=(keyed_items&& other) after the precondition checks: this object
MoveAssignImpl(k, other) ==
  [VectorMoveAssign(k, other.vector_, other.capacity) EXCEPT
     !.slots = other.slots, !.slot_type_ = other.slot_type_]

\* operator=(std::vector<T>), operator=(std::initializer_list<T>) and assign
AssignImpl(k, vector) == Rehash(VectorMoveAssign(k, vector, Len(vector)))

\* clear(): std::vector<T>::clear keeps the capacity
ClearImpl(k) == Rehash([k EXCEPT !.vector_ = <<>>])

\* shrink_to_fit(): libstdc++ reallocates to exactly size()
ShrinkToFitImpl(k) == MaybeRehash([k EXCEPT !.capacity = Len(k.vector_)])[2]

\* The loop of append_range_impl from element i of the range on.
RECURSIVE AppendLoop(_, _, _)
AppendLoop(k, range, i) ==
  IF i > Len(range) \/ k.state # "ok" THEN k
  ELSE AppendLoop(PushBackImpl(k, range[i]), range, i + 1)

\* append_range_impl: reserve(capacity() + range.size()), then push_back each.
AppendRangeImpl(k, range) ==
  AppendLoop(ReserveImpl(k, k.capacity + Len(range)), range, 1)

\* std::sort by key: where the element at place i of the sorted vector comes
\* from is not told apart here, items with equal keys being equal.
RECURSIVE Insert(_, _)
Insert(sorted, item) ==
  IF sorted = <<>> THEN <<item>>
  ELSE IF GetKey(item) < GetKey(Head(sorted)) THEN <<item>> \o sorted
  ELSE <<Head(sorted)>> \o Insert(Tail(sorted), item)

RECURSIVE SortByKey(_)
SortByKey(vector) ==
  IF vector = <<>> THEN <<>>
  ELSE Insert(SortByKey(Tail(vector)), Head(vector))

\* sort_by_key() without its Rehash()
SortByKeyNoRehash(k) == [k EXCEPT !.vector_ = SortByKey(k.vector_)]

SortByKeyImpl(k) == Rehash([k EXCEPT !.vector_ = SortByKey(k.vector_)])

\* ~vector_mutator() rehashing only when the capacity changed
MutatorDestroyedMaybeRehash(k) ==
  [MaybeRehash(k)[2] EXCEPT !.being_mutated_ = FALSE, !.mutators = k.mutators - 1]

\* ~vector_mutator()
MutatorDestroyed(k) ==
  [Rehash(k) EXCEPT !.being_mutated_ = FALSE, !.mutators = k.mutators - 1]

\* start_vector_mutation() after the precondition check
StartMutationImpl(k) ==
  [k EXCEPT !.being_mutated_ = TRUE, !.mutators = k.mutators + 1]

\* The element at place i (1-based) erased from a sequence.
EraseAt(vector, i) ==
  [j \in 1 .. (Len(vector) - 1) |-> IF j < i THEN vector[j] ELSE vector[j + 1]]

\* keyed_items(std::vector<T>), keyed_items(std::initializer_list<T>) and
\* keyed_items(first, last)
Constructed(vector) == Rehash(VectorMoveAssign(DefaultKeyedItems, vector, Len(vector)))

\* The other keyed_items objects a call is given: built from a vector, then
\* possibly given more room.
Others == {ReserveImpl(Constructed(v), n) : v \in Vectors, n \in 0 .. MaxReserve}

Running == halted = "running"

\* A call whose probe loop did not return leaves state # "ok".
Broken(k) == k.state # "ok"

\* The call `name` ends with the object in the state next.
Finish(name, next) ==
  /\ op' = name
  /\ IF Broken(next)
     THEN /\ halted' = (IF next.state = "diverges" THEN "hung" ELSE "crashed")
          /\ ki' = ki
     ELSE /\ halted' = halted
          /\ ki' = next
  /\ hash' = hash
  /\ UNCHANGED codecVars
  /\ UNCHANGED jsonVars

\* ABSL_CHECK(!being_mutated_) failed in the call `name`.
Abort(name) ==
  /\ op' = name
  /\ halted' = "aborted"
  /\ UNCHANGED <<ki, hash>>
  /\ UNCHANGED codecVars
  /\ UNCHANGED jsonVars

\* A call that only reads.
Return(name) ==
  /\ op' = name
  /\ UNCHANGED <<ki, hash, halted>>
  /\ UNCHANGED codecVars
  /\ UNCHANGED jsonVars

\* ~keyed_items(); the program goes on with a default-constructed object.
destroy ==
  /\ Running
  /\ IF ki.being_mutated_ THEN Abort("~keyed_items")
     ELSE Finish("~keyed_items", DefaultKeyedItems)

\* keyed_items(const keyed_items& other) with the object as other; the program
\* goes on with the copy.
copy_construct ==
  /\ Running
  /\ IF ki.being_mutated_ THEN Abort("keyed_items(const&)")
     ELSE Finish("keyed_items(const&)", CopyConstructed(ki))

\* keyed_items(keyed_items&& other) with the object as other; the program goes
\* on with the new object (TRUE) or with the moved-from one (FALSE).
move_construct(with_new) ==
  /\ Running
  /\ IF ki.being_mutated_ THEN Abort("keyed_items(&&)")
     ELSE Finish("keyed_items(&&)", IF with_new THEN MoveConstructed(ki) ELSE MovedFrom(ki))

\* operator=(const keyed_items& other)
copy_assign(other) ==
  /\ Running
  /\ IF ki.being_mutated_ \/ other.being_mutated_ THEN Abort("operator=(const&)")
     ELSE Finish("operator=(const&)", CopyAssignImpl(ki, other))

\* operator=(keyed_items&& other)
move_assign(other) ==
  /\ Running
  /\ IF ki.being_mutated_ \/ other.being_mutated_ THEN Abort("operator=(&&)")
     ELSE Finish("operator=(&&)", MoveAssignImpl(ki, other))

\* operator=(keyed_items&& other) with the object as other
moved_from ==
  /\ Running
  /\ IF ki.being_mutated_ THEN Abort("other=std::move")
     ELSE Finish("other=std::move", MovedFrom(ki))

\* operator=(std::vector<T>), operator=(std::initializer_list<T>), assign
assign(items) ==
  /\ Running
  /\ IF ki.being_mutated_ THEN Abort("assign")
     ELSE Finish("assign", AssignImpl(ki, items))

reserve(new_cap) ==
  /\ Running
  /\ IF ki.being_mutated_ THEN Abort("reserve")
     ELSE Finish("reserve", ReserveImpl(ki, new_cap))

shrink_to_fit ==
  /\ Running
  /\ IF ki.being_mutated_ THEN Abort("shrink_to_fit")
     ELSE Finish("shrink_to_fit", ShrinkToFitImpl(ki))

\* clear() without its precondition check
clear_unchecked ==
  /\ Running
  /\ Finish("clear", ClearImpl(ki))

clear ==
  /\ Running
  /\ IF ki.being_mutated_ THEN Abort("clear")
     ELSE Finish("clear", ClearImpl(ki))

push_back(value) ==
  /\ Running
  /\ Len(ki.vector_) < MaxLen
  /\ IF ki.being_mutated_ THEN Abort("push_back")
     ELSE Finish("push_back", PushBackImpl(ki, value))

\* append_range(const std::vector<T>&) and its overloads; the precondition is
\* checked by the reserve() it starts with.
append_range(range) ==
  /\ Running
  /\ Len(ki.vector_) + Len(range) <= MaxLen
  /\ ki.capacity + Len(range) <= MaxCapacity
  /\ IF ki.being_mutated_ THEN Abort("append_range")
     ELSE Finish("append_range", AppendRangeImpl(ki, range))

\* swap(keyed_items& other); the other object is not followed further.
swap(other) ==
  /\ Running
  /\ IF ki.being_mutated_ \/ other.being_mutated_ THEN Abort("swap")
     ELSE Finish("swap", MoveAssignImpl(ki, other))

sort_by_key ==
  /\ Running
  /\ IF ki.being_mutated_ THEN Abort("sort_by_key")
     ELSE Finish("sort_by_key", SortByKeyImpl(ki))

\* find_or_null and find_or_default: the call returns, never returns, or dies.
find_or_null(key) ==
  /\ Running
  /\ IF ki.being_mutated_ THEN Abort("find_or_null")
     ELSE \E found \in FindOrNullImpl(ki, key) :
            /\ op' = "find_or_null"
            /\ halted' = (IF found = Diverges THEN "hung"
                          ELSE IF found = Crash THEN "crashed" ELSE halted)
            /\ UNCHANGED <<ki, hash>>
            /\ UNCHANGED codecVars
            /\ UNCHANGED jsonVars

\* empty() and size(): they read vector_ with no check.
size ==
  /\ Running
  /\ Return("size")

\* vector() const&, and what goes through it: at, operator[], front, back,
\* begin .. crend, capacity, operator==, operator!=. No check is made.
vector_const_ref ==
  /\ Running
  /\ Return("vector")

\* vector() &&: the vector is moved out of the object, nothing else changes.
vector_rvalue ==
  /\ Running
  /\ Finish("vector&&", [ki EXCEPT !.vector_ = <<>>, !.capacity = 0])

\* start_vector_mutation() without its precondition check
start_vector_mutation_unchecked ==
  /\ Running
  /\ Finish("start_vector_mutation", StartMutationImpl(ki))

start_vector_mutation ==
  /\ Running
  /\ IF ki.being_mutated_ THEN Abort("start_vector_mutation")
     ELSE Finish("start_vector_mutation", StartMutationImpl(ki))

\* Edits made through vector_mutator::operator* and operator->.
mutator_push_back(value) ==
  /\ Running
  /\ ki.mutators > 0
  /\ Len(ki.vector_) < MaxLen
  /\ Finish("mutator->push_back", VectorPushBack(ki, value))

mutator_erase(i) ==
  /\ Running
  /\ ki.mutators > 0
  /\ i \in 1 .. Len(ki.vector_)
  /\ Finish("mutator->erase", [ki EXCEPT !.vector_ = EraseAt(ki.vector_, i)])

mutator_set_key(i, key) ==
  /\ Running
  /\ ki.mutators > 0
  /\ i \in 1 .. Len(ki.vector_)
  /\ Finish("(*mutator)[i].id=", [ki EXCEPT !.vector_[i].id = key])

\* ~vector_mutator()
mutator_destroy ==
  /\ Running
  /\ ki.mutators > 0
  /\ Finish("~vector_mutator", MutatorDestroyed(ki))

InitKeyed ==
  /\ ki = DefaultKeyedItems
  /\ hash \in [1 .. MaxKey + 1 -> 0 .. MaxHash]
  /\ op = "keyed_items"
  /\ halted = "running"
  /\ input = NoValue
  /\ byte_sink = NoSink
  /\ result = NoResult
  /\ byte_source = NoSource
  /\ phase = "input"
  /\ tokenizer = NoTokenizer
  /\ parse = NoParse

NextKeyed ==
  \/ destroy
  \/ copy_construct
  \/ \E with_new \in BOOLEAN : move_construct(with_new)
  \/ \E other \in Others : copy_assign(other)
  \/ \E other \in Others : move_assign(other)
  \/ moved_from
  \/ \E items \in Vectors : assign(items)
  \/ \E new_cap \in 0 .. MaxReserve : reserve(new_cap)
  \/ shrink_to_fit
  \/ clear
  \/ \E value \in Items : push_back(value)
  \/ \E range \in Vectors : append_range(range)
  \/ \E other \in Others : swap(other)
  \/ sort_by_key
  \/ \E key \in 1 .. MaxKey + 1 : find_or_null(key)
  \/ size
  \/ vector_const_ref
  \/ vector_rvalue
  \/ start_vector_mutation
  \/ \E value \in Items : mutator_push_back(value)
  \/ \E i \in 1 .. MaxLen : mutator_erase(i)
  \/ \E i \in 1 .. MaxLen, key \in Keys : mutator_set_key(i, key)
  \/ mutator_destroy

SpecKeyed == InitKeyed /\ [][NextKeyed]_vars

\* The calls the claim about insertion order names: push_back, append_range
\* and assignment, with the lookups made in between.
NextInsert ==
  \/ \E items \in Vectors : assign(items)
  \/ \E value \in Items : push_back(value)
  \/ \E range \in Vectors : append_range(range)
  \/ \E key \in 1 .. MaxKey + 1 : find_or_null(key)

SpecInsert == InitKeyed /\ [][NextInsert]_vars

\* Every call but vector() &&: the calls that construct, assign, grow, shrink,
\* clear, sort, swap, copy and move the container, the lookups and reads, and
\* the vector mutation scope.
NextPublic ==
  \/ destroy
  \/ copy_construct
  \/ \E with_new \in BOOLEAN : move_construct(with_new)
  \/ \E other \in Others : copy_assign(other)
  \/ \E other \in Others : move_assign(other)
  \/ moved_from
  \/ \E items \in Vectors : assign(items)
  \/ \E new_cap \in 0 .. MaxReserve : reserve(new_cap)
  \/ shrink_to_fit
  \/ clear
  \/ \E value \in Items : push_back(value)
  \/ \E range \in Vectors : append_range(range)
  \/ \E other \in Others : swap(other)
  \/ sort_by_key
  \/ \E key \in 1 .. MaxKey + 1 : find_or_null(key)
  \/ size
  \/ vector_const_ref
  \/ start_vector_mutation
  \/ \E value \in Items : mutator_push_back(value)
  \/ \E i \in 1 .. MaxLen : mutator_erase(i)
  \/ \E i \in 1 .. MaxLen, key \in Keys : mutator_set_key(i, key)
  \/ mutator_destroy

SpecPublic == InitKeyed /\ [][NextPublic]_vars

----------------------------------------------------------------------------
\* Properties of keyed_items

\* The places (1-based) of the items of a vector that have a key.
IndicesOf(items, key) == {i \in 1 .. Len(items) : GetKey(items[i]) = key}

Last(S) == CHOOSE i \in S : \A j \in S : j <= i

\* State Normal of the container: no vector_mutator is alive, no check failed.
Normal == Running /\ ~ki.being_mutated_

\* C1: after push_back / append_range / assignment calls, find_or_null(k) and
\* find_or_default(k) return the last item, in insertion order, whose key is k.
C1_LastItemIsFound ==
  Normal =>
    \A key \in Keys :
      IndicesOf(ki.vector_, key) # {} =>
        FindOrNullImpl(ki, key) = {Ptr(Last(IndicesOf(ki.vector_, key)))}

\* C2: a push_back of an item whose key an item of the container already has
\* appends the item and leaves find_or_default(key) returning an item that was
\* there before, the same as before the call.
C2_PushBackKeepsEarlierItem ==
  [][\A value \in Items :
       (/\ Normal
        /\ IndicesOf(ki.vector_, GetKey(value)) # {}
        /\ push_back(value)
        /\ halted' = "running")
       => /\ ki'.vector_ = Append(ki.vector_, value)
          /\ FindOrNullImpl(ki', GetKey(value)) = FindOrNullImpl(ki, GetKey(value))
          /\ \E i \in IndicesOf(ki.vector_, GetKey(value)) :
               FindOrNullImpl(ki', GetKey(value)) = {Ptr(i)}]_vars

C4_AbsentKeyIsNull ==
  Normal =>
    \A key \in 1 .. MaxKey + 1 :
      IndicesOf(ki.vector_, key) = {} => FindOrNullImpl(ki, key) = {Null}

\* The slot table a probe loop can run on: it is not empty, it has at least
\* kNumSlotsPerItem slots for each item, so one of them is empty, and the
\* index of every item fits the width of a slot.
ProbeTable(k) ==
  /\ Len(k.slots) > 0
  /\ Len(k.slots) >= kNumSlotsPerItem * Len(k.vector_)
  /\ \E i \in 1 .. Len(k.slots) : k.slots[i] = 0
  /\ Len(k.vector_) < 2 ^ (8 * SlotSize(k.slot_type_))

\* C29: after any sequence of public operations, a container whose lookups
\* and insertions run a probe loop (it holds an item) has a slot table that
\* is not empty, has at least twice as many slots as there are items and so
\* an empty slot, and slots wide enough for every index; no call hangs or
\* crashes in PutSlot or FindOrNull.
C29_ProbeLoopsTerminate ==
  /\ halted \notin {"hung", "crashed"}
  /\ (Normal /\ Len(ki.vector_) > 0) => ProbeTable(ki)

C5_MutatingScope ==
  /\ [](ki.mutators <= 1 /\ (ki.being_mutated_ <=> ki.mutators = 1))
  /\ [][/\ (~ki.being_mutated_ /\ ki'.being_mutated_) => op' = "start_vector_mutation"
        /\ (ki.being_mutated_ /\ ~ki'.being_mutated_) => op' = "~vector_mutator"
        /\ (op' = "start_vector_mutation" /\ halted' = "running") => ki'.being_mutated_
        /\ (op' = "~vector_mutator") =>
             /\ halted' = "running"
             /\ ~ki'.being_mutated_
             /\ ki'.slots = Rehash(ki).slots
             /\ ki'.slot_type_ = Rehash(ki).slot_type_]_vars

C5_ScopeEnded ==
  /\ Normal
  /\ op = "~vector_mutator"
  /\ Len(ki.vector_) = MaxLen

\* The calls that start with ABSL_CHECK(!being_mutated_), by the names the
\* model gives them.
CheckedCalls ==
  {"~keyed_items", "keyed_items(const&)", "keyed_items(&&)", "operator=(const&)",
   "operator=(&&)", "other=std::move", "assign", "reserve", "shrink_to_fit",
   "clear", "push_back", "append_range", "swap", "sort_by_key", "find_or_null",
   "start_vector_mutation"}

\* The calls of the public interface that make no check.
UncheckedCalls == {"size", "vector", "vector&&"}

C7_LookupsReflectEdits ==
  op = "~vector_mutator" =>
    /\ Normal
    /\ \A key \in 1 .. MaxKey + 1 :
         IF IndicesOf(ki.vector_, key) = {}
         THEN FindOrNullImpl(ki, key) = {Null}
         ELSE \E i \in IndicesOf(ki.vector_, key) : FindOrNullImpl(ki, key) = {Ptr(i)}

C7_EditedAndRehashed ==
  /\ op = "~vector_mutator"
  /\ Normal
  /\ Len(ki.vector_) = MaxLen
  /\ \E key \in Keys : IndicesOf(ki.vector_, key) = {}

(***************************************************************************)
(* Binary serialization: ByteSink, ByteSource, the number and string       *)
(* adapters, ToBytes and Parse                                             *)
(***************************************************************************)

\* An integer of the program is held as the four 16-bit limbs, lowest first,
\* of its 64-bit two's complement pattern: what static_cast<uint64_t> gives.
LimbBase == 65536
ByteBase == 256

Max(a, b) == IF a >= b THEN a ELSE b

\* The pattern of an integer n that fits 32 bits.
Int64Of(n) ==
  <<n % LimbBase, (n \div LimbBase) % LimbBase,
    IF n < 0 THEN LimbBase - 1 ELSE 0, IF n < 0 THEN LimbBase - 1 ELSE 0>>

\* 4294967296
TwoPow32 == <<0, 0, 1, 0>>

\* -2147483648
Int32Min == <<0, LimbBase \div 2, LimbBase - 1, LimbBase - 1>>

IsNegative(v) == v[4] >= LimbBase \div 2

UnsignedLess(a, b) ==
  \E i \in 1 .. 4 : a[i] < b[i] /\ \A j \in (i + 1) .. 4 : a[j] = b[j]

\* a < b for int64_t a and b
SignedLess(a, b) ==
  IF IsNegative(a) # IsNegative(b) THEN IsNegative(a) ELSE UnsignedLess(a, b)

\* a + b modulo 2^64
Add64(a, b) ==
  LET s1 == a[1] + b[1]
      s2 == a[2] + b[2] + s1 \div LimbBase
      s3 == a[3] + b[3] + s2 \div LimbBase
      s4 == a[4] + b[4] + s3 \div LimbBase IN
  <<s1 % LimbBase, s2 % LimbBase, s3 % LimbBase, s4 % LimbBase>>

\* value >> (8 * i), converted to uint8_t
ByteOf(v, i) ==
  LET limb == v[(i \div 2) + 1] IN
  IF i % 2 = 0 THEN limb % ByteBase ELSE limb \div ByteBase

\* The little-endian bytes 0 .. n - 1 of a pattern.
BytesOf(v, n) == [i \in 1 .. n |-> ByteOf(v, i - 1)]

\* The pattern whose little-endian bytes are bs, the upper limbs being fill.
FromBytes(bs, fill) ==
  [i \in 1 .. 4 |->
     IF 2 * i <= Len(bs) THEN bs[2 * i - 1] + ByteBase * bs[2 * i]
     ELSE IF 2 * i - 1 = Len(bs) THEN bs[2 * i - 1] + ByteBase * (fill % ByteBase)
     ELSE fill]

\* static_cast<number>(v) of a 64-bit pattern v
Cast(number, v) ==
  CASE number = "bool" -> IF v = Int64Of(0) THEN Int64Of(0) ELSE Int64Of(1)
    [] number = "int32" ->
         <<v[1], v[2],
           IF v[2] >= LimbBase \div 2 THEN LimbBase - 1 ELSE 0,
           IF v[2] >= LimbBase \div 2 THEN LimbBase - 1 ELSE 0>>
    [] number = "uint32" -> <<v[1], v[2], 0, 0>>
    [] OTHER -> v

\* A byte of storage nothing was written to.
Uninit == 256

kDefaultCapacity == 16

\* ByteSink(): pos_ is held as the offset pos_ - data_, which is length().
\* data_ numbers the arrays the sink has allocated: it tells the array a
\* pointer into the sink points into.  overrun and dangling are no members
\* of the class: they record a write past the end of the array and a write
\* through a pointer into an array that was deleted.
NewByteSink ==
  [data |-> [i \in 1 .. kDefaultCapacity |-> Uninit], pos_ |-> 0,
   capacity_ |-> kDefaultCapacity, overrun |-> FALSE, data_ |-> 0,
   dangling |-> FALSE]

capacity_left(sink) == sink.capacity_ - sink.pos_

\* ByteSink::Prepare
Prepare(sink, n) ==
  IF n <= capacity_left(sink) THEN sink
  ELSE LET capacity == sink.capacity_ + Max(sink.capacity_, n) IN
       [sink EXCEPT !.capacity_ = capacity,
                    !.data_ = @ + 1,
                    !.data = [i \in 1 .. capacity |->
                                IF i <= sink.pos_ THEN sink.data[i] ELSE Uninit]]

\* ByteSink::pos(): the array the pointer points into and the offset in it.
SinkPos(sink) == [data_ |-> sink.data_, offset |-> sink.pos_]

\* *(data_ + offset) = byte; a write outside the array is recorded, not made.
WriteAt(sink, offset, byte) ==
  IF offset < sink.capacity_
  THEN [sink EXCEPT !.data[offset + 1] = byte % ByteBase]
  ELSE [sink EXCEPT !.overrun = TRUE]

\* *(out_pos) = byte for a pointer out_pos that out.pos() returned while
\* the array of the sink was the one numbered data_.
WriteThrough(sink, data_, offset, byte) ==
  IF data_ # sink.data_ THEN [sink EXCEPT !.dangling = TRUE]
  ELSE WriteAt(sink, offset, byte)

\* ByteSink::PushUnsafe(uint8_t)
PushUnsafe(sink, byte) ==
  [WriteAt(sink, sink.pos_, byte) EXCEPT !.pos_ = sink.pos_ + 1]

\* ByteSink::PushUnsafe(first, second, tail...)
RECURSIVE PushAllUnsafe(_, _)
PushAllUnsafe(sink, bs) ==
  IF bs = <<>> THEN sink
  ELSE PushAllUnsafe(PushUnsafe(sink, Head(bs)), Tail(bs))

\* ByteSink::Push
Push(sink, bs) == PushAllUnsafe(Prepare(sink, Len(bs)), bs)

\* ByteSink::PopN
PopN(sink, n) == [sink EXCEPT !.pos_ = sink.pos_ - n]

\* ByteSink::ToByteString
ToByteString(sink) == [i \in 1 .. sink.pos_ |-> sink.data[i]]

AppendWiredUint8(value, out) == Push(out, <<235>> \o BytesOf(value, 1))
AppendWiredUint16(kWire, value, out) == Push(out, <<kWire>> \o BytesOf(value, 2))
AppendWiredUint32(kWire, value, out) == Push(out, <<kWire>> \o BytesOf(value, 4))
AppendWiredInt32(value, out) == AppendWiredUint32(237, value, out)
AppendWiredUint64(kWire, value, out) == Push(out, <<kWire>> \o BytesOf(value, 8))
AppendWiredInt64(value, out) == AppendWiredUint64(238, value, out)

\* BoolAdapter::Append(bool, ByteSink&)
BoolAppend(v, out) == Push(out, <<IF v # Int64Of(0) THEN 1 ELSE 0>>)

\* Int32Adapter::Append(int32_t, ByteSink&)
Int32Append(v, out) ==
  IF SignedLess(v, Int64Of(0))
  THEN IF ~SignedLess(v, Int64Of(-256))
       THEN AppendWiredUint8(Add64(v, Int64Of(256)), out)
       ELSE IF ~SignedLess(v, Int64Of(-65536))
       THEN AppendWiredUint16(236, Add64(v, Int64Of(65536)), out)
       ELSE AppendWiredInt32(v, out)
  ELSE IF SignedLess(v, Int64Of(232)) THEN Push(out, BytesOf(v, 1))
  ELSE IF SignedLess(v, Int64Of(65536)) THEN AppendWiredUint16(232, v, out)
  ELSE AppendWiredUint32(233, v, out)

\* A Uint64Adapter::Append with no 16-bit form.
Uint64AppendNoUint16(v, out) ==
  IF UnsignedLess(v, Int64Of(232)) THEN Push(out, BytesOf(v, 1))
  ELSE IF UnsignedLess(v, TwoPow32)
  THEN AppendWiredUint32(233, v, out)
  ELSE AppendWiredUint64(234, v, out)

\* Uint64Adapter::Append(uint64_t, ByteSink&)
Uint64Append(v, out) ==
  IF UnsignedLess(v, Int64Of(232)) THEN Push(out, BytesOf(v, 1))
  ELSE IF UnsignedLess(v, TwoPow32)
  THEN IF UnsignedLess(v, Int64Of(65536))
       THEN AppendWiredUint16(232, v, out)
       ELSE AppendWiredUint32(233, v, out)
  ELSE AppendWiredUint64(234, v, out)

\* Int64Adapter::Append with no 64-bit case for the negative values
Int64AppendNarrow(v, out) ==
  IF SignedLess(v, Int64Of(0))
  THEN IF ~SignedLess(v, Int64Of(-256))
       THEN AppendWiredUint8(Add64(v, Int64Of(256)), out)
       ELSE IF ~SignedLess(v, Int64Of(-65536))
       THEN AppendWiredUint16(236, Add64(v, Int64Of(65536)), out)
       ELSE AppendWiredInt32(v, out)
  ELSE Uint64Append(v, out)

\* Int64Adapter::Append(int64_t, ByteSink&)
Int64Append(v, out) ==
  IF SignedLess(v, Int64Of(0))
  THEN IF ~SignedLess(v, Int64Of(-256))
       THEN AppendWiredUint8(Add64(v, Int64Of(256)), out)
       ELSE IF ~SignedLess(v, Int64Of(-65536))
       THEN AppendWiredUint16(236, Add64(v, Int64Of(65536)), out)
       ELSE IF ~SignedLess(v, Int32Min)
       THEN AppendWiredInt32(v, out)
       ELSE AppendWiredInt64(v, out)
  ELSE IF SignedLess(v, Int64Of(232)) THEN Push(out, BytesOf(v, 1))
  ELSE IF SignedLess(v, Int64Of(65536)) THEN AppendWiredUint16(232, v, out)
  ELSE IF SignedLess(v, TwoPow32) THEN AppendWiredUint32(233, v, out)
  ELSE AppendWiredInt64(v, out)

\* ByteSource(begin, length): pos is held as the offset pos - begin. The flag
\* unmodelled is raised where the bytes hold a float or a number written as a
\* string, whose conversion to an integer this model does not compute.
NewByteSource(bs) == [NoSource EXCEPT !.bytes = bs]

num_bytes_left(source) == Len(source.bytes) - source.pos

\* A RaiseError that leaves the cursor where it is.
RaiseErrorInPlace(source) == [source EXCEPT !.error = TRUE]

\* ByteSource::RaiseError
RaiseError(source) == [source EXCEPT !.pos = Len(source.bytes), !.error = TRUE]

\* A ReadWire that returns 0 at the end of the input without an error.
ReadWireZeroAtEnd(source) ==
  IF source.pos < Len(source.bytes)
  THEN [wire |-> source.bytes[source.pos + 1],
        source |-> [source EXCEPT !.pos = source.pos + 1]]
  ELSE [wire |-> 0, source |-> source]

\* ByteSource::ReadWire
ReadWire(source) ==
  IF source.pos < Len(source.bytes)
  THEN [wire |-> source.bytes[source.pos + 1],
        source |-> [source EXCEPT !.pos = source.pos + 1]]
  ELSE [wire |-> 0, source |-> RaiseError(source)]

\* The n bytes at source.pos.
BytesAt(source, n) == SubSeq(source.bytes, source.pos + 1, source.pos + n)

Advance(source, n) == [source EXCEPT !.pos = source.pos + n]

\* The cases of ParseNumberWithWire that read n bytes as an integer, the
\* pattern above them filled with fill; signed32 tells the cast to int32_t.
ReadInteger(number, source, out, n, fill, signed32) ==
  IF num_bytes_left(source) < n THEN [source |-> RaiseError(source), out |-> out]
  ELSE LET pattern == FromBytes(BytesAt(source, n), fill) IN
       [source |-> Advance(source, n),
        out |-> Cast(number, IF signed32 THEN Cast("int32", pattern) ELSE pattern)]

\* The cases 240 and 241 of ParseNumberWithWire up to the conversion of the
\* float.
ReadUnmodelled(source, out, n) ==
  IF num_bytes_left(source) < n THEN [source |-> RaiseError(source), out |-> out]
  ELSE [source |-> [Advance(source, n) EXCEPT !.unmodelled = TRUE], out |-> out]

RECURSIVE StringParse(_, _)

\* '0' .. '9'
DigitBytes == 48 .. 57

\* The case 243 of ParseNumberWithWire: --source.pos, StringAdapter::Parse,
\* then TryParseNumber, which fails on a string without a digit.  The
\* conversion of a string with a digit is not made: the parse is marked.
ParseNumberFromString(source, out) ==
  LET parsed == StringParse([source EXCEPT !.pos = @ - 1], <<>>) IN
  IF parsed.source.error \/ parsed.source.unmodelled
  THEN [source |-> parsed.source, out |-> out]
  ELSE IF \E i \in 1 .. Len(parsed.out) : parsed.out[i] \in DigitBytes
  THEN [source |-> [parsed.source EXCEPT !.unmodelled = TRUE], out |-> out]
  ELSE [source |-> RaiseError(parsed.source), out |-> out]

\* ParseNumberWithWire<number>
ParseNumberWithWire(number, wire, source, out) ==
  IF wire < 232
  THEN [source |-> source, out |-> IF wire # 0 THEN Cast(number, Int64Of(wire)) ELSE out]
  ELSE CASE wire = 232 -> ReadInteger(number, source, out, 2, 0, FALSE)
         [] wire = 233 -> ReadInteger(number, source, out, 4, 0, FALSE)
         [] wire = 234 -> ReadInteger(number, source, out, 8, 0, FALSE)
         [] wire = 235 -> ReadInteger(number, source, out, 1, LimbBase - 1, FALSE)
         [] wire = 236 -> ReadInteger(number, source, out, 2, LimbBase - 1, FALSE)
         [] wire = 237 -> ReadInteger(number, source, out, 4, 0, TRUE)
         [] wire \in {238, 239} -> ReadInteger(number, source, out, 8, 0, FALSE)
         [] wire = 240 -> ReadUnmodelled(source, out, 4)
         [] wire = 241 -> ReadUnmodelled(source, out, 8)
         [] wire = 243 -> ParseNumberFromString(source, out)
         [] OTHER -> [source |-> RaiseError(source), out |-> out]

\* ParseNumber<number>
ParseNumber(number, source, out) ==
  LET read == ReadWire(source) IN
  ParseNumberWithWire(number, read.wire, read.source, out)

\* a & b for bytes a and b
RECURSIVE BitAnd(_, _)
BitAnd(a, b) ==
  IF a = 0 \/ b = 0 THEN 0
  ELSE (a % 2) * (b % 2) + 2 * BitAnd(a \div 2, b \div 2)

\* input.c_str()[i]: the bytes of the string, then the terminating 0.
CharAt(str, i) == IF i < Len(str) THEN str[i + 1] ELSE 0

\* (byte & 0xC0) == 0x80
IsContinuation(byte) == BitAnd(byte, 192) = 128

\* The continuation bytes that follow place pos of the string, which ends
\* with a 0 that is not one of them.
RECURSIVE ContinuationBytes(_, _)
ContinuationBytes(str, pos) ==
  IF IsContinuation(CharAt(str, pos))
  THEN <<CharAt(str, pos)>> \o ContinuationBytes(str, pos + 1)
  ELSE <<>>

\* The validation of CopyUtf8Codepoint: v, the bytes of the sequence read
\* into a uint32_t, is looked at through its two highest bytes only, which
\* is where the masks have their bits.
Utf8Error(first_byte, continuation) ==
  LET continuation_bytes == Len(continuation)
      second == IF continuation = <<>> THEN 0 ELSE continuation[1] IN
  IF BitAnd(first_byte, 224) = 192
  THEN continuation_bytes # 1 \/ BitAnd(first_byte, 30) = 0
  ELSE IF BitAnd(first_byte, 240) = 224
  THEN \/ continuation_bytes # 2
       \/ LET v == BitAnd(first_byte, 15) * ByteBase + BitAnd(second, 32) IN
          v = 0 \/ v = 13 * ByteBase + 32
  ELSE IF BitAnd(first_byte, 248) = 240
  THEN \/ continuation_bytes # 3
       \/ LET v == BitAnd(first_byte, 7) * ByteBase + BitAnd(second, 48) IN
          v = 0 \/ v > 4 * ByteBase
  ELSE TRUE

\* An OnError that asks for no capacity.
OnErrorUnprepared(pos, end, out) ==
  PushAllUnsafe(out, <<239, 191, 189>>)

\* copy_utf8_codepoint::ToByteSink::OnError
OnError(pos, end, out) ==
  PushAllUnsafe(Prepare(out, (end - pos) + 3), <<239, 191, 189>>)

\* CopyUtf8Codepoint<ToByteSink, NullTerminated::kTrue>: the place in the
\* input after the sequence, and the sink.
CopyUtf8Codepoint(first_byte, str, pos, out) ==
  LET continuation == ContinuationBytes(str, pos)
      after == pos + Len(continuation)
      pushed == PushAllUnsafe(out, <<first_byte>> \o continuation) IN
  [pos |-> after,
   out |-> IF Utf8Error(first_byte, continuation)
           THEN OnError(after, Len(str), PopN(pushed, Len(continuation) + 1))
           ELSE pushed]

\* The loop of CopyUtf8String: input_pos is the place of the next char,
\* out_pos the local write pointer, as the array it points into and the
\* offset in it, out the sink with its own pos_.
RECURSIVE CopyUtf8StringLoop(_, _, _, _)
CopyUtf8StringLoop(str, input_pos, out_pos, out) ==
  LET c == CharAt(str, input_pos)
      next_pos == [out_pos EXCEPT !.offset = @ + 1] IN
  IF c = 0
  THEN IF input_pos + 1 > Len(str)
       THEN [out EXCEPT !.pos_ = out_pos.offset]
       ELSE CopyUtf8StringLoop(str, input_pos + 1, next_pos,
              PushUnsafe(WriteThrough(out, out_pos.data_, out_pos.offset, 0), 0))
  ELSE IF c >= 128
  THEN LET copied == CopyUtf8Codepoint(c, str, input_pos + 1,
                                       [out EXCEPT !.pos_ = out_pos.offset]) IN
       CopyUtf8StringLoop(str, copied.pos, SinkPos(copied.out), copied.out)
  ELSE CopyUtf8StringLoop(str, input_pos + 1, next_pos,
                          WriteThrough(out, out_pos.data_, out_pos.offset, c))

CopyUtf8String(str, out) == CopyUtf8StringLoop(str, 0, SinkPos(out), out)

\* StringAdapter::Append(const std::string&, ByteSink&)
StringAppend(str, out) ==
  IF str = <<>> THEN Push(out, <<242>>)
  ELSE LET max_encoded_length == Len(str) * 3
           prefix_length == IF max_encoded_length < 232 THEN 2
                            ELSE IF max_encoded_length < 65536 THEN 4 ELSE 6
           prepared == Prepare(out, prefix_length + Len(str))
           prefixed == IF max_encoded_length < 232 THEN Push(prepared, <<243, 0>>)
                       ELSE IF max_encoded_length < 65536
                       THEN Push(prepared, <<243, 232, 0, 0>>)
                       ELSE Push(prepared, <<243, 233, 0, 0, 0, 0>>)
           prefix_end_offset == prefixed.pos_
           copied == CopyUtf8String(str, prefixed)
           encoded_length == copied.pos_ - prefix_end_offset IN
       IF max_encoded_length < 232
       THEN WriteAt(copied, prefix_end_offset - 1, encoded_length)
       ELSE IF max_encoded_length < 65536
       THEN WriteAt(WriteAt(copied, prefix_end_offset - 2, encoded_length),
                    prefix_end_offset - 1, encoded_length \div ByteBase)
       ELSE WriteAt(WriteAt(WriteAt(WriteAt(copied,
                      prefix_end_offset - 4, encoded_length),
                      prefix_end_offset - 3, encoded_length \div ByteBase),
                      prefix_end_offset - 2, encoded_length \div (ByteBase * ByteBase)),
                      prefix_end_offset - 1, encoded_length \div (ByteBase * ByteBase * ByteBase))

\* StringAdapter::Parse(ByteSource&, std::string&)
StringParse(source, out) ==
  LET read == ReadWire(source) IN
  IF read.wire = 243
  THEN LET number == ParseNumber("uint32", read.source, Int64Of(0))
           length == number.out IN
       IF number.source.unmodelled THEN [source |-> number.source, out |-> out]
       ELSE IF length[2] > 0 \/ num_bytes_left(number.source) < length[1]
       THEN [source |-> RaiseError(number.source), out |-> out]
       ELSE [source |-> Advance(number.source, length[1]),
             out |-> out \o BytesAt(number.source, length[1])]
  ELSE IF read.wire # 242 /\ read.wire # 0
  THEN [source |-> RaiseError(read.source), out |-> out]
  ELSE [source |-> read.source, out |-> out]

\* body(v), v being the value of `value`: a local variable of the code.
With(value, body(_)) == CHOOSE r \in {body(v) : v \in {value}} : TRUE

\* ByteSource::PeekWire
PeekWire(source) ==
  IF source.pos < Len(source.bytes)
  THEN [wire |-> source.bytes[source.pos + 1], source |-> source]
  ELSE [wire |-> 0, source |-> RaiseError(source)]

\* An OptionalAdapter::Append that writes an absent optional as the byte 0.
OptionalAppendAbsentAsZero(optional, out) ==
  IF optional # <<>> THEN Int32Append(optional[1], out)
  ELSE Push(out, <<0>>)

\* OptionalAdapter::Append(const absl::optional<int32_t>&, ByteSink&): the
\* optional is <<>> or a sequence of one value.
OptionalAppend(optional, out) ==
  IF optional # <<>> THEN Int32Append(optional[1], out)
  ELSE Push(out, <<255>>)

\* OptionalAdapter::Parse(ByteSource&, absl::optional<int32_t>&)
OptionalParse(source, out) ==
  With(PeekWire(source), LAMBDA peek :
    IF peek.wire = 255
    THEN [source |-> Advance(peek.source, 1), out |-> out]
    ELSE With(ParseNumber("int32", peek.source, Int64Of(0)), LAMBDA parsed :
           [source |-> parsed.source, out |-> <<parsed.out>>]))

\* OptionalAdapter::Append(const absl::optional<std::string>&, ByteSink&)
OptionalStringAppend(optional, out) ==
  IF optional # <<>> THEN StringAppend(optional[1], out)
  ELSE Push(out, <<255>>)

\* OptionalAdapter::Parse(ByteSource&, absl::optional<std::string>&)
OptionalStringParse(source, out) ==
  With(PeekWire(source), LAMBDA peek :
    IF peek.wire = 255
    THEN [source |-> Advance(peek.source, 1), out |-> out]
    ELSE With(StringParse(peek.source, <<>>), LAMBDA parsed :
           [source |-> parsed.source, out |-> <<parsed.out>>]))

\* AppendLengthPrefix<kWire>(length, out) for a length below 65536
AppendLengthPrefix(kWire, length, out) ==
  LET extra == IF kWire = 245 THEN length ELSE 0 IN
  IF kWire = 250 /\ length < 4
  THEN PushUnsafe(Prepare(out, 1 + extra), (kWire - 4) + length)
  ELSE IF length < 232
  THEN PushAllUnsafe(Prepare(out, 2 + extra), <<kWire, length>>)
  ELSE PushAllUnsafe(Prepare(out, 4 + extra),
                     <<kWire, 232, length % ByteBase, length \div ByteBase>>)

AppendArrayPrefix(length, out) ==
  IF length < 4 THEN Push(out, <<246 + length>>)
  ELSE AppendLengthPrefix(250, length, out)

\* for (const T& item : input) TypeAdapter<T>::Append(item, out)
RECURSIVE AppendItems(_, _)
AppendItems(items, out) ==
  IF items = <<>> THEN out
  ELSE AppendItems(Tail(items), Int32Append(Head(items), out))

\* ArrayAdapter::Append(const std::vector<int32_t>&, ByteSink&)
ArrayAppend(items, out) == AppendItems(items, AppendArrayPrefix(Len(items), out))

\* ParseArrayPrefix(source, length), length being 0 before the call
ParseArrayPrefixWire(read) ==
  CASE read.wire \in {246, 0} -> [source |-> read.source, out |-> Int64Of(0)]
    [] read.wire \in {247, 248, 249} ->
         [source |-> read.source, out |-> Int64Of(read.wire - 246)]
    [] read.wire = 250 -> ParseNumber("uint32", read.source, Int64Of(0))
    [] OTHER -> [source |-> RaiseError(read.source), out |-> Int64Of(0)]

ParseArrayPrefix(source) == ParseArrayPrefixWire(ReadWire(source))

\* for (size_t i = 0; i < length; ++i) { if (source.error) return;
\* ParseAndPush(source, out); } with length - i = left
RECURSIVE ParseItems(_, _, _)
ParseItems(source, out, left) ==
  IF left = 0 \/ source.error THEN [source |-> source, out |-> out]
  ELSE With(ParseNumber("int32", source, Int64Of(0)), LAMBDA parsed :
         ParseItems(parsed.source, Append(out, parsed.out), left - 1))

\* ArrayAdapter::Parse(ByteSource&, std::vector<int32_t>&) after the prefix
ArrayParseLength(prefix, out) ==
  IF prefix.out[3] > 0 \/ prefix.out[4] > 0 \/ prefix.out[2] > 0
     \/ num_bytes_left(prefix.source) < prefix.out[1]
  THEN [source |-> RaiseError(prefix.source), out |-> out]
  ELSE ParseItems(prefix.source, out, prefix.out[1])

ArrayParse(source, out) == ArrayParseLength(ParseArrayPrefix(source), out)

\* A TryAdvance that refuses to stop at the end of the input.
TryAdvanceBeforeEnd(source, n) ==
  IF source.pos + n < Len(source.bytes) THEN Advance(source, n)
  ELSE RaiseError(source)

\* ByteSource::TryAdvance
TryAdvance(source, n) ==
  IF source.pos + n <= Len(source.bytes) THEN Advance(source, n)
  ELSE RaiseError(source)

\* A uint32_t read by ParseNumber as a count of bytes or of values. One that
\* does not fit in 16 bits is beyond every input: it counts as one more than
\* the bytes of the source, which neither TryAdvance nor a loop of reads
\* can reach.
CountOf(source, number) ==
  IF number[2] > 0 THEN Len(source.bytes) + 1 ELSE number[1]

\* SkipValue(ByteSource&): the switch on the wire of one value, giving the
\* source after it and the values it added to num_values_left.
SkipWire(wire, source) ==
  CASE wire \in {232, 236} -> [source |-> TryAdvance(source, 2), more |-> 0]
    [] wire \in {233, 237, 240} -> [source |-> TryAdvance(source, 4), more |-> 0]
    [] wire \in {234, 238, 239, 241} -> [source |-> TryAdvance(source, 8), more |-> 0]
    [] wire = 235 -> [source |-> TryAdvance(source, 1), more |-> 0]
    [] wire \in {243, 245} ->
         With(ParseNumber("uint32", source, Int64Of(0)), LAMBDA length :
           [source |-> TryAdvance(length.source, CountOf(length.source, length.out)),
            more |-> 0])
    [] wire \in {247, 248, 249} -> [source |-> source, more |-> wire - 246]
    [] wire = 250 ->
         With(ParseNumber("uint32", source, Int64Of(0)), LAMBDA array_len :
           [source |-> array_len.source,
            more |-> CountOf(array_len.source, array_len.out)])
    [] wire \in {251, 252, 253, 254} -> [source |-> source, more |-> 1]
    [] OTHER -> [source |-> source, more |-> 0]

\* SkipValue(ByteSource&): the loop, from num_values_left values to skip.
RECURSIVE SkipValueLoop(_, _)
SkipValueLoop(source, num_values_left) ==
  IF num_values_left = 0 THEN source
  ELSE With(ReadWire(source), LAMBDA read :
         IF read.source.error THEN read.source
         ELSE With(SkipWire(read.wire, read.source), LAMBDA skipped :
                IF skipped.source.error THEN skipped.source
                ELSE SkipValueLoop(skipped.source,
                                num_values_left + skipped.more - 1)))

\* SkipValue(ByteSource&)
SkipValue(source) == SkipValueLoop(source, 1)

\* Append(input, byte_sink) for the type of the input
AppendValue(type, value, out) ==
  CASE type = "bool" -> BoolAppend(value, out)
    [] type = "int32" -> Int32Append(value, out)
    [] type = "int64" -> Int64Append(value, out)
    [] type = "uint64" -> Uint64Append(value, out)
    [] type = "int32?" -> OptionalAppend(value, out)
    [] type = "string?" -> OptionalStringAppend(value, out)
    [] type = "int32[]" -> ArrayAppend(value, out)
    [] OTHER -> StringAppend(value, out)

\* T result{}
DefaultValue(type) ==
  IF type \in {"string", "int32?", "string?", "int32[]"} THEN <<>> ELSE Int64Of(0)

\* soia_internal::Parse(byte_source, result) for the type of the result
ParseValue(type, source, out) ==
  CASE type = "string" -> StringParse(source, out)
    [] type = "int32?" -> OptionalParse(source, out)
    [] type = "string?" -> OptionalStringParse(source, out)
    [] type = "int32[]" -> ArrayParse(source, out)
    [] OTHER -> ParseNumber(type, source, out)

\* 's', 'o', 'i', 'a'
kSoia == <<115, 111, 105, 97>>

\* The limbs the integers to serialize are made of: those next to a change
\* of width of the encoding, and the extremes.
BoundaryLimbs == {0, 1, 231, 232, 32767, 32768, 65279, 65280, 65534, 65535}

\* The bytes the strings to serialize are made of: NUL, 'a', a continuation
\* byte, and the first bytes of a two-byte and of a three-byte sequence.
StringBytes == {0, 97, 169, 195, 226}

\* The elements of the arrays and the values of the optionals.
ArrayItems == {Int64Of(0), Int64Of(1), Int64Of(300)}

\* The other int32 an optional holds: those whose encoding has 255 among
\* its bytes, -1 (235, 255), -257 (236, 255, 254), 255 and 65535, and the
\* extremes.
OptionalItems ==
  {Cast("int32", v) : v \in {<<65535, 65535, 0, 0>>, <<65279, 65535, 0, 0>>,
                              <<255, 0, 0, 0>>, <<65535, 0, 0, 0>>,
                              <<0, 32768, 0, 0>>, <<65535, 32767, 0, 0>>}}

\* Longest string an optional holds.
MaxOptionalStrLen == 2

OptionalStrings == UNION {[1 .. n -> StringBytes] : n \in 0 .. MaxOptionalStrLen}

Inputs ==
  {[type |-> "bool", value |-> Int64Of(b)] : b \in {0, 1}}
  \cup {[type |-> "int32", value |-> Cast("int32", <<a, b, 0, 0>>)] :
          a \in BoundaryLimbs, b \in BoundaryLimbs}
  \cup {[type |-> t, value |-> v] :
          t \in {"int64", "uint64"},
          v \in [1 .. 4 -> BoundaryLimbs]}
  \cup {[type |-> "string", value |-> str] :
          str \in UNION {[1 .. n -> StringBytes] : n \in 0 .. MaxStrLen}}
  \cup {[type |-> "int32?", value |-> optional] :
          optional \in {<<>>} \cup {<<v>> : v \in ArrayItems \cup OptionalItems}}
  \cup {[type |-> "string?", value |-> optional] :
          optional \in {<<>>} \cup {<<str>> : str \in OptionalStrings}}
  \cup {[type |-> "int32[]", value |-> items] :
          items \in UNION {[1 .. n -> ArrayItems] : n \in 0 .. MaxArrayLen}}

\* ToBytes(input)
ToBytes ==
  /\ phase = "input"
  /\ byte_sink' = AppendValue(input.type, input.value, Push(NewByteSink, kSoia))
  /\ phase' = "encoded"
  /\ UNCHANGED <<input, result, byte_source>>
  /\ UNCHANGED keyedVars
  /\ UNCHANGED jsonVars

\* Parse<T>(bytes) on the bytes ToBytes returned, which start with "soia".
Parse ==
  /\ phase = "encoded"
  /\ ~byte_sink.overrun
  /\ LET bytes_or_json == ToByteString(byte_sink) IN
     /\ Len(bytes_or_json) >= 4
     /\ SubSeq(bytes_or_json, 1, 4) = kSoia
     /\ \E parsed \in {ParseValue(input.type,
                                  NewByteSource(SubSeq(bytes_or_json, 5, Len(bytes_or_json))),
                                  DefaultValue(input.type))} :
          /\ byte_source' = parsed.source
          /\ result' = [ok |-> ~(parsed.source.error
                                  \/ parsed.source.pos < Len(parsed.source.bytes)),
                        value |-> parsed.out,
                        unmodelled |-> parsed.source.unmodelled]
  /\ phase' = "parsed"
  /\ UNCHANGED <<input, byte_sink>>
  /\ UNCHANGED keyedVars
  /\ UNCHANGED jsonVars

\* The bytes ToBytes wrote after "soia".
Payload == SubSeq(ToByteString(byte_sink), 5, byte_sink.pos_)

\* The structures a value is a part of: none; an enum wrapper, either the
\* wire 251 .. 254 of the number of the variant or the array of the number
\* and the value, as ParseEnumPrefix reads them; an array of an array; an
\* array with an explicit length.
Wrappers == {"value", "enum 251", "enum 254", "enum 248", "nested array", "array 250"}

Wrap(wrapper, bytes) ==
  CASE wrapper = "enum 251" -> <<251>> \o bytes
    [] wrapper = "enum 254" -> <<254>> \o bytes
    [] wrapper = "enum 248" -> <<248, 232, 44, 1>> \o bytes
    [] wrapper = "nested array" -> <<248, 247>> \o bytes \o <<235, 255>>
    [] wrapper = "array 250" -> <<250, 4, 1>> \o bytes \o <<246, 242>>
    [] OTHER -> bytes

\* The value that follows the skipped one when it is not the whole input.
kNextValue == <<9>>

\* CheckBytesValueIsSkippable: SkipValue on the bytes of the encoded value,
\* alone or inside a structure, at the end of the input or before another
\* value.
SkipEncoded ==
  /\ phase = "encoded"
  /\ ~byte_sink.overrun
  /\ \E wrapper \in Wrappers, embedded \in BOOLEAN :
       /\ byte_source' = SkipValue(NewByteSource(
             Wrap(wrapper, Payload) \o (IF embedded THEN kNextValue ELSE <<>>)))
       /\ phase' = IF embedded THEN "skipped before a value" ELSE "skipped"
  /\ UNCHANGED <<input, byte_sink, result>>
  /\ UNCHANGED keyedVars
  /\ UNCHANGED jsonVars

InitCodec ==
  /\ ki = DefaultKeyedItems
  /\ hash = [key \in 1 .. MaxKey + 1 |-> 0]
  /\ op = "keyed_items"
  /\ halted = "running"
  /\ input \in Inputs
  /\ byte_sink = NoSink
  /\ result = NoResult
  /\ byte_source = NoSource
  /\ phase = "input"
  /\ tokenizer = NoTokenizer
  /\ parse = NoParse

NextCodec ==
  \/ ToBytes
  \/ Parse
  \/ SkipEncoded

SpecCodec == InitCodec /\ [][NextCodec]_vars

\* The numbers of bytes a sink holds after "soia" when a string is appended
\* to it: a sink of the default capacity is full with the most of them.
Befores == 0 .. kDefaultCapacity - Len(kSoia)

\* Append(input, byte_sink) for a string that comes after other values, as
\* a field of a struct or an element of an array does.
AppendString ==
  /\ phase = "appending"
  /\ byte_sink' = StringAppend(input.value, byte_sink)
  /\ phase' = "encoded"
  /\ UNCHANGED <<input, result, byte_source>>
  /\ UNCHANGED keyedVars
  /\ UNCHANGED jsonVars

InitStringSink ==
  /\ ki = DefaultKeyedItems
  /\ hash = [key \in 1 .. MaxKey + 1 |-> 0]
  /\ op = "keyed_items"
  /\ halted = "running"
  /\ input \in {[type |-> "string", value |-> str] :
                  str \in UNION {[1 .. n -> StringBytes] : n \in 0 .. MaxStrLen}}
  /\ \E before \in Befores :
       byte_sink = PushAllUnsafe(Push(NewByteSink, kSoia), [i \in 1 .. before |-> 1])
  /\ result = NoResult
  /\ byte_source = NoSource
  /\ phase = "appending"
  /\ tokenizer = NoTokenizer
  /\ parse = NoParse

NextStringSink == AppendString

SpecStringSink == InitStringSink /\ [][NextStringSink]_vars

\* C30: while a string is appended to a ByteSink, whatever the sink holds
\* already and whatever the bytes of the string, well-formed UTF-8,
\* malformed sequences or NUL, every write made without a test of the
\* capacity lands inside the array of the sink, and no write is made
\* through a pointer taken before the sink allocated another array.
C30_UncheckedWritesInBounds ==
  /\ ~byte_sink.overrun
  /\ ~byte_sink.dangling
  /\ byte_sink.pos_ <= byte_sink.capacity_

\* "a", NUL and a malformed byte were appended to a sink that had room for
\* the three bytes and not for the replacement character: the sink
\* allocated a second array while the string was copied.
C30_ReallocatedWhileCopying ==
  /\ phase = "encoded"
  /\ input.value = <<97, 0, 226>>
  /\ byte_sink.data_ = 1
  /\ byte_sink.capacity_ = 2 * kDefaultCapacity
  /\ byte_sink.pos_ = 18

----------------------------------------------------------------------------
\* Properties of the binary serialization

IntegerTypes == {"bool", "int32", "int64", "uint64"}

\* C9: decoding the binary encoding of a bool, int32, int64 or uint64 value
\* with the same type succeeds and yields the value.
C9_IntegerRoundTrip ==
  (phase = "parsed" /\ input.type \in IntegerTypes) =>
    (result.ok /\ ~result.unmodelled /\ result.value = input.value)

\* -2^31 - 1 as an int64 went through ToBytes and Parse.
C9_BelowInt32MinParsed ==
  /\ phase = "parsed"
  /\ input = [type |-> "int64", value |-> <<65535, 32767, 65535, 65535>>]
  /\ ToByteString(byte_sink) = kSoia \o <<238, 255, 255, 255, 127, 255, 255, 255, 255>>

\* Well-formed UTF-8 (Unicode, table 3-7).
RECURSIVE WellFormedUtf8(_)
WellFormedUtf8(str) ==
  LET InRange(i, lo, hi) == i <= Len(str) /\ str[i] >= lo /\ str[i] <= hi
      Rest(n) == WellFormedUtf8(SubSeq(str, n + 1, Len(str))) IN
  \/ str = <<>>
  \/ InRange(1, 0, 127) /\ Rest(1)
  \/ InRange(1, 194, 223) /\ InRange(2, 128, 191) /\ Rest(2)
  \/ InRange(1, 224, 224) /\ InRange(2, 160, 191) /\ InRange(3, 128, 191) /\ Rest(3)
  \/ InRange(1, 225, 236) /\ InRange(2, 128, 191) /\ InRange(3, 128, 191) /\ Rest(3)
  \/ InRange(1, 237, 237) /\ InRange(2, 128, 159) /\ InRange(3, 128, 191) /\ Rest(3)
  \/ InRange(1, 238, 239) /\ InRange(2, 128, 191) /\ InRange(3, 128, 191) /\ Rest(3)
  \/ InRange(1, 240, 240) /\ InRange(2, 144, 191) /\ InRange(3, 128, 191)
       /\ InRange(4, 128, 191) /\ Rest(4)
  \/ InRange(1, 241, 243) /\ InRange(2, 128, 191) /\ InRange(3, 128, 191)
       /\ InRange(4, 128, 191) /\ Rest(4)
  \/ InRange(1, 244, 244) /\ InRange(2, 128, 143) /\ InRange(3, 128, 191)
       /\ InRange(4, 128, 191) /\ Rest(4)

\* C10: decoding the binary encoding of a well-formed UTF-8 string yields the
\* string, NUL characters included: after "soia" the bytes are 243, the
\* number of bytes of the string, and the bytes of the string.
C10_StringRoundTrip ==
  (phase = "parsed" /\ input.type = "string" /\ WellFormedUtf8(input.value)) =>
    /\ result.ok
    /\ result.value = input.value
    /\ input.value # <<>> =>
         ToByteString(byte_sink) = kSoia \o <<243, Len(input.value)>> \o input.value

\* TypeAdapter<T>::IsDefault(input): !input for bool and the integers,
\* input.empty() for a string and an array, !input.has_value() for an optional.
IsDefault(type, value) ==
  IF type \in {"string", "int32[]", "int32?", "string?"} THEN value = <<>>
  ELSE value = Int64Of(0)

\* The byte the encoders write for a default value: 0 for bool and the
\* integers, 242 for the empty string, 246 for the empty array, 255 for the
\* absent optional.
DefaultWire(type) ==
  CASE type = "string" -> 242
    [] type = "int32[]" -> 246
    [] type \in {"int32?", "string?"} -> 255
    [] OTHER -> 0

\* C12 as stated: a value is the default of its type if and only if its
\* binary encoding is the single byte 0.
C12_DefaultIsByteZero ==
  phase = "encoded" => (IsDefault(input.type, input.value) <=> Payload = <<0>>)

\* C12: a bool, int32, int64, uint64, string, optional or array value is the
\* default of its type if and only if its binary encoding is one byte, the
\* one the wire table gives to the default of the type: 0 for bool and the
\* integers, 242 for the empty string, 246 for the empty array and 255 for
\* the absent optional.
C12_DefaultIsOneByte ==
  phase = "encoded" =>
    (IsDefault(input.type, input.value) <=> Payload = <<DefaultWire(input.type)>>)

\* The empty string went through ToBytes: "soia" and the byte 242.
C12_EmptyStringEncoded ==
  /\ phase = "encoded"
  /\ input = [type |-> "string", value |-> <<>>]
  /\ ToByteString(byte_sink) = kSoia \o <<242>>

\* Where the skipped value ends in the bytes of the source.
SkipEnd ==
  Len(byte_source.bytes) - (IF phase = "skipped" THEN 0 ELSE Len(kNextValue))

\* C13: SkipValue on the binary encoding of a value, alone or inside enum
\* wrappers and arrays, sets no error and stops right after the bytes of the
\* value: at the end of the input when the value is the whole input, at the
\* next value otherwise.
C13_SkipValueConsumesOneValue ==
  phase \in {"skipped", "skipped before a value"} =>
    ~byte_source.error /\ byte_source.pos = SkipEnd

\* A vector of four int32 inside an array of an array was skipped up to the
\* value that follows it.
C13_NestedArraySkipped ==
  /\ phase = "skipped before a value"
  /\ input = [type |-> "int32[]",
              value |-> <<Int64Of(300), Int64Of(0), Int64Of(1), Int64Of(300)>>]
  /\ byte_source.bytes = <<248, 247, 250, 4, 232, 44, 1, 0, 1, 232, 44, 1, 235, 255, 9>>
  /\ byte_source.pos = 14

\* The wire table for the integers: the form of the fewest bytes that holds
\* the value of the 64-bit pattern v of a number of the type, as the first
\* byte of the form (the value itself when it is below 232) and the number of
\* its bytes.
AllOnes == LimbBase - 1

ShortestForm(type, v) ==
  LET negative == type # "uint64" /\ v[4] >= LimbBase \div 2 IN
  CASE ~negative /\ v[4] = 0 /\ v[3] = 0 /\ v[2] = 0 /\ v[1] < 232 ->
         [wire |-> v[1], size |-> 1]
    [] ~negative /\ v[4] = 0 /\ v[3] = 0 /\ v[2] = 0 /\ v[1] >= 232 ->
         [wire |-> 232, size |-> 3]
    [] ~negative /\ v[4] = 0 /\ v[3] = 0 /\ v[2] > 0 ->
         [wire |-> 233, size |-> 5]
    [] negative /\ v[4] = AllOnes /\ v[3] = AllOnes /\ v[2] = AllOnes /\ v[1] >= AllOnes - 255 ->
         [wire |-> 235, size |-> 2]
    [] negative /\ v[4] = AllOnes /\ v[3] = AllOnes /\ v[2] = AllOnes /\ v[1] < AllOnes - 255 ->
         [wire |-> 236, size |-> 3]
    [] negative /\ v[4] = AllOnes /\ v[3] = AllOnes /\ v[2] < AllOnes /\ v[2] >= LimbBase \div 2 ->
         [wire |-> 237, size |-> 5]
    [] OTHER -> [wire |-> IF type = "uint64" THEN 234 ELSE 238, size |-> 9]

\* C24: the binary encoding of an int32, int64 or uint64 value is the
\* shortest form of the wire table that holds it: one byte for 0 .. 231; 232
\* and 2 bytes up to 65535; 233 and 4 bytes up to 2^32 - 1; 235 and 1 byte
\* for -256 .. -1; 236 and 2 bytes down to -65536; 237 and 4 bytes down to
\* -2^31; 238 (int64) or 234 (uint64) and 8 bytes beyond.
C24_ShortestForm ==
  (phase = "encoded" /\ input.type \in {"int32", "int64", "uint64"}) =>
    /\ Len(Payload) = ShortestForm(input.type, input.value).size
    /\ Payload[1] = ShortestForm(input.type, input.value).wire

\* -257 as an int64 was encoded as 236 and two bytes.
C24_Minus257Encoded ==
  /\ phase = "encoded"
  /\ input = [type |-> "int64", value |-> <<65279, 65535, 65535, 65535>>]
  /\ Payload = <<236, 255, 254>>

\* 2^32 - 1 as a uint64 was encoded as 233 and four bytes.
Uint32MaxEncoded ==
  /\ phase = "encoded"
  /\ input = [type |-> "uint64", value |-> <<65535, 65535, 0, 0>>]
  /\ Payload = <<233, 255, 255, 255, 255>>

OptionalTypes == {"int32?", "string?"}

\* The encoding of an optional starts with the byte 255 if and only if the
\* optional is absent, and no encoding of a bool, an integer, a string or
\* an array starts with 255.
LeadingByte255IffAbsent ==
  phase = "encoded" =>
    ((Payload # <<>> /\ Payload[1] = 255)
       <=> (input.type \in OptionalTypes /\ input.value = <<>>))

\* Decoding the encoding of an optional<int32_t> yields the optional.
OptionalInt32RoundTrip ==
  (phase = "parsed" /\ input.type = "int32?") =>
    (result.ok /\ result.value = input.value)

\* C23: the binary encoding of an optional starts with the byte 255 if and
\* only if the optional is absent, no encoding of a value of another type
\* starts with 255, and decoding the encoding of an optional yields the
\* optional, absent or present with the same value (a string being
\* well-formed UTF-8).
C23_OptionalRoundTrip ==
  /\ LeadingByte255IffAbsent
  /\ (/\ phase = "parsed"
      /\ input.type \in OptionalTypes
      /\ (input.type = "string?" /\ input.value # <<>>) => WellFormedUtf8(input.value[1]))
       => (result.ok /\ result.value = input.value)

(***************************************************************************)
(* JSON: JsonTokenizer, ParseJsonNumber, JsonArrayReader, ArrayAdapter and  *)
(* the JSON branch of the top-level Parse.  A text is a sequence of         *)
(* characters, each a one-character string; "NUL" stands for '\0'.          *)
(***************************************************************************)
\* Longest JSON text that is parsed.
MaxJsonLen == 4
\* Iterations of the array loop of ArrayAdapter::Parse that are followed.
MaxSteps == 8

Digits == <<"0", "1", "2", "3", "4", "5", "6", "7", "8", "9">>

IsDigit(c) == \E i \in 1 .. 10 : Digits[i] = c

\* digit - '0'
DigitValue(c) == (CHOOSE i \in 1 .. 10 : Digits[i] = c) - 1

\* value * 10 + digit, modulo 2^64
Times10Plus(value, digit) ==
  LET s1 == value[1] * 10 + digit
      s2 == value[2] * 10 + s1 \div LimbBase
      s3 == value[3] * 10 + s2 \div LimbBase
      s4 == value[4] * 10 + s3 \div LimbBase IN
  <<s1 % LimbBase, s2 % LimbBase, s3 % LimbBase, s4 % LimbBase>>

\* -value, modulo 2^64
Negate(value) ==
  Add64([i \in 1 .. 4 |-> LimbBase - 1 - value[i]], Int64Of(1))

\* JsonTokenizer(json_code_begin, json_code_end, unrecognized_fields): `beyond`
\* is the character that the memory holds at json_code_end.
NewJsonTokenizer(chars, beyond) ==
  [NoTokenizer EXCEPT !.chars = chars, !.beyond = beyond]

chars_left(state) == Len(state.chars) - state.pos

\* *p for a pointer p at `offset` from begin: the text, then the character
\* that follows it in memory.
Deref(state, offset) ==
  IF offset < Len(state.chars) THEN state.chars[offset + 1] ELSE state.beyond

\* ++pos < end ? *pos : '\0'
NextCharOrNull(state) ==
  LET moved == [state EXCEPT !.pos = @ + 1] IN
  [state |-> moved,
   char |-> IF moved.pos < Len(state.chars) THEN Deref(moved, moved.pos) ELSE "NUL"]

\* state.status = status.  first_status is no field of the program: it keeps
\* the first status that was not OK, for the properties to refer to.
AssignStatus(state, status) ==
  [state EXCEPT !.status = status,
                !.first_status = IF @.ok THEN status ELSE @]

PushError(state, message) ==
  IF state.status.ok
  THEN [AssignStatus(state, [OkStatus EXCEPT !.ok = FALSE, !.message = message])
          EXCEPT !.token_type = "kError"]
  ELSE state

PushErrorAtPosition(state, expected) ==
  IF state.status.ok
  THEN [AssignStatus(state, [ok |-> FALSE, message |-> "at position",
                             expected |-> expected, found |-> "",
                             position |-> state.pos])
          EXCEPT !.token_type = "kError"]
  ELSE state

PushUnexpectedTokenError(state, expected) ==
  LET actual_str ==
        CASE state.token_type = "kError" -> "ERROR"
          [] state.token_type = "kTrue" -> "true"
          [] state.token_type = "kFalse" -> "false"
          [] state.token_type = "kNull" -> "null"
          [] state.token_type \in {"kZero", "kUnsignedInteger",
                                   "kSignedInteger", "kFloat"} -> "number"
          [] state.token_type = "kString" -> "string"
          [] state.token_type = "kStrEnd" -> "end"
          [] OTHER -> state.token_type IN
  IF state.status.ok
  THEN [AssignStatus(state, [ok |-> FALSE, message |-> "unexpected token",
                             expected |-> expected, found |-> actual_str,
                             position |-> 0])
          EXCEPT !.token_type = "kError"]
  ELSE state

\* while (IsDigit(digit = state.NextCharOrNull())) integral_part = ...: the
\* state, the first character that is no digit, and the integral part.
RECURSIVE ReadDigits(_, _)
ReadDigits(state, integral_part) ==
  With(NextCharOrNull(state), LAMBDA next :
    IF IsDigit(next.char)
    THEN ReadDigits(next.state, Times10Plus(integral_part, DigitValue(next.char)))
    ELSE [state |-> next.state, char |-> next.char, integral_part |-> integral_part])

Token(state, token) == [state |-> state, token |-> token]

\* parse_float: strtod(token_start, nullptr), kept as the text of the token.
ParseFloat(state, token_start) ==
  Token([state EXCEPT !.float_value = SubSeq(state.chars, token_start + 1, state.pos)],
        "kFloat")

\* parse_exponential_part, c being the character after 'e' or 'E'.
ParseExponentialPart(state, c, token_start) ==
  With(IF c \in {"+", "-"} THEN NextCharOrNull(state) ELSE [state |-> state, char |-> c],
       LAMBDA signed :
    IF ~IsDigit(signed.char)
    THEN Token(PushErrorAtPosition(signed.state, "digit"), "kError")
    ELSE ParseFloat(ReadDigits(signed.state, Int64Of(0)).state, token_start))

\* The second switch of ParseFractionalPart, after the digits of the fraction.
AfterFraction(rest, token_start) ==
  IF rest.char \in {"E", "e"}
  THEN With(NextCharOrNull(rest.state), LAMBDA next :
         ParseExponentialPart(next.state, next.char, token_start))
  ELSE ParseFloat(rest.state, token_start)

ParseFractionalPart(kSign, c, token_start, state, integral_part) ==
  CASE c = "." ->
         With(NextCharOrNull(state), LAMBDA first :
           IF ~IsDigit(first.char)
           THEN Token(PushErrorAtPosition(first.state, "digit"), "kError")
           ELSE AfterFraction(ReadDigits(first.state, Int64Of(0)), token_start))
    [] c \in {"E", "e"} ->
         With(NextCharOrNull(state), LAMBDA next :
           ParseExponentialPart(next.state, next.char, token_start))
    [] OTHER ->
         IF integral_part = Int64Of(0) THEN Token(state, "kZero")
         ELSE IF kSign = "-"
         THEN Token([state EXCEPT !.int_value = Negate(integral_part)], "kSignedInteger")
         ELSE Token([state EXCEPT !.uint_value = integral_part], "kUnsignedInteger")

\* The characters an escape sequence other than \u stands for.
Escaped(escape_char) ==
  CASE escape_char = "b" -> "\\b"
    [] escape_char = "f" -> "\\f"
    [] escape_char = "n" -> "\n"
    [] escape_char = "r" -> "\r"
    [] escape_char = "t" -> "\t"
    [] OTHER -> escape_char

\* The loop of ParseString, pos being past the opening quote.  Texts are
\* ASCII; a \u escape sequence is marked and not decoded.
RECURSIVE ParseStringLoop(_, _)
ParseStringLoop(state, value) ==
  IF state.pos = Len(state.chars)
  THEN Token(PushError(state, "unterminated string literal"), "kError")
  ELSE LET byte == Deref(state, state.pos)
           read == [state EXCEPT !.pos = @ + 1] IN
       IF byte = "\""
       THEN Token([read EXCEPT !.string_value = value], "kString")
       ELSE IF byte = "\\"
       THEN IF read.pos = Len(read.chars)
            THEN Token(PushErrorAtPosition(read, "escape sequence"), "kError")
            ELSE LET escape_char == Deref(read, read.pos)
                     escaped == [read EXCEPT !.pos = @ + 1] IN
                 IF escape_char \in {"\"", "'", "\\", "/", "b", "f", "n", "r", "t"}
                 THEN ParseStringLoop(escaped, Append(value, Escaped(escape_char)))
                 ELSE IF escape_char = "u"
                 THEN Token([escaped EXCEPT !.unmodelled = TRUE], "kError")
                 ELSE Token(PushError(escaped, "invalid escape sequence"), "kError")
       ELSE ParseStringLoop(read, Append(value, byte))

ParseString(state) == ParseStringLoop([state EXCEPT !.pos = @ + 1], <<>>)

\* while (*(++state.pos) == ' ') {}: the read is not checked against end.  The
\* memory holds one character after the text; a read past it is a fault.
RECURSIVE SkipSpaces(_)
SkipSpaces(state) ==
  LET moved == [state EXCEPT !.pos = @ + 1] IN
  IF moved.pos > Len(state.chars) THEN [moved EXCEPT !.fault = TRUE]
  ELSE IF Deref(moved, moved.pos) = " " THEN SkipSpaces(moved)
  ELSE moved

\* state.chars_left() >= Len(word) and pos[1 ..] spell the rest of the word.
Spells(state, word) ==
  /\ chars_left(state) >= Len(word)
  /\ \A i \in 2 .. Len(word) : Deref(state, state.pos + i - 1) = word[i]

Keyword(state, word, token) ==
  IF Spells(state, word)
  THEN Token([state EXCEPT !.pos = @ + Len(word)], token)
  ELSE Token(PushErrorAtPosition(state, "JSON token"), "kError")

\* static_cast<JsonTokenType>(c) of a punctuation character.
TokenOfChar(c) ==
  CASE c = "[" -> "kLeftSquareBracket"
    [] c = "]" -> "kRightSquareBracket"
    [] c = "{" -> "kLeftCurlyBracket"
    [] c = "}" -> "kRightCurlyBracket"
    [] c = "," -> "kComma"
    [] c = ":" -> "kColon"

RECURSIVE NextImpl(_)
NextImpl(state) ==
  IF state.fault THEN Token(state, "kError")
  ELSE IF state.pos = Len(state.chars) THEN Token(state, "kStrEnd")
  ELSE LET c == Deref(state, state.pos) IN
    CASE c \in {"\t", "\n", "\r"} -> NextImpl([state EXCEPT !.pos = @ + 1])
      [] c = " " -> NextImpl(SkipSpaces(state))
      [] c \in {"[", "]", "{", "}", ",", ":"} ->
           Token([state EXCEPT !.pos = @ + 1], TokenOfChar(c))
      [] c = "t" -> Keyword(state, <<"t", "r", "u", "e">>, "kTrue")
      [] c = "f" -> Keyword(state, <<"f", "a", "l", "s", "e">>, "kFalse")
      [] c = "n" -> Keyword(state, <<"n", "u", "l", "l">>, "kNull")
      [] c = "-" ->
           LET first == NextCharOrNull(state) IN
           IF ~IsDigit(first.char)
           THEN Token(PushErrorAtPosition(first.state, "digit"), "kError")
           ELSE LET read == ReadDigits(first.state, Int64Of(DigitValue(first.char))) IN
                ParseFractionalPart("-", read.char, state.pos, read.state,
                                    read.integral_part)
      [] IsDigit(c) ->
           LET read == ReadDigits(state, Int64Of(DigitValue(c))) IN
           ParseFractionalPart("+", read.char, state.pos, read.state,
                               read.integral_part)
      [] c = "\"" -> ParseString(state)
      [] c = "NUL" -> Token(state, "kStrEnd")
      [] OTHER -> Token(PushErrorAtPosition(state, "JSON token"), "kError")

\* JsonTokenizer::Next(): the state after the call; the token returned is its
\* token_type, or kError when the status is not OK.
JsonNext(state) ==
  IF ~state.status.ok THEN state
  ELSE With(NextImpl(state), LAMBDA next : [next.state EXCEPT !.token_type = next.token])

\* std::string::c_str(): the characters before the first '\0'.
RECURSIVE CStr(_)
CStr(str) ==
  IF str = <<>> \/ Head(str) = "NUL" THEN <<>> ELSE <<Head(str)>> \o CStr(Tail(str))

\* The carry out of 64 bits of value * 10 + digit.
Times10Carry(value, digit) ==
  LET s1 == value[1] * 10 + digit
      s2 == value[2] * 10 + s1 \div LimbBase
      s3 == value[3] * 10 + s2 \div LimbBase
      s4 == value[4] * 10 + s3 \div LimbBase IN
  s4 \div LimbBase

\* The digits of strtol and strtoul from str[i]: their value modulo 2^64,
\* whether it passed 2^64 - 1, and the index after the last digit.
RECURSIVE StrtolDigits(_, _, _, _)
StrtolDigits(str, i, value, overflow) ==
  IF i <= Len(str) /\ IsDigit(str[i])
  THEN StrtolDigits(str, i + 1, Times10Plus(value, DigitValue(str[i])),
                    overflow \/ Times10Carry(value, DigitValue(str[i])) > 0)
  ELSE [value |-> value, overflow |-> overflow, str_end |-> i]

RECURSIVE StrtolSpaces(_, _)
StrtolSpaces(str, i) ==
  IF i <= Len(str) /\ str[i] \in {" ", "\t", "\n", "\r", "\\f", "\\v"}
  THEN StrtolSpaces(str, i + 1) ELSE i

\* LONG_MAX, LONG_MIN and ULONG_MAX of a 64-bit long.
LongMax == <<LimbBase - 1, LimbBase - 1, LimbBase - 1, LimbBase \div 2 - 1>>
LongMin == <<0, 0, 0, LimbBase \div 2>>
UlongMax == <<LimbBase - 1, LimbBase - 1, LimbBase - 1, LimbBase - 1>>

\* What strtol and strtoul have in common: white space, a sign, digits.
\* str_end indexes str from 1; with no digits it is the start of str.
StrtolScan(str) ==
  LET start == StrtolSpaces(str, 1)
      sign == IF start <= Len(str) /\ str[start] \in {"+", "-"} THEN str[start] ELSE ""
      first == IF sign = "" THEN start ELSE start + 1 IN
  With(StrtolDigits(str, first, Int64Of(0), FALSE), LAMBDA digits :
    [sign |-> sign, value |-> digits.value, overflow |-> digits.overflow,
     str_end |-> IF digits.str_end = first THEN 1 ELSE digits.str_end])

\* The value of std::strtol(str, &str_end, 10) after the scan: out of range it
\* is LONG_MAX or LONG_MIN.
StrtolValue(scan) ==
  IF scan.sign = "-"
  THEN IF scan.overflow \/ UnsignedLess(LongMin, scan.value) THEN LongMin
       ELSE Negate(scan.value)
  ELSE IF scan.overflow \/ IsNegative(scan.value) THEN LongMax
       ELSE scan.value

\* strtoul taken for strtol: a value above LONG_MAX is not kept.
StrtoulValueAsLong(scan) == StrtolValue(scan)

\* The value of std::strtoul(str, &str_end, 10): out of range it is ULONG_MAX,
\* and a minus sign negates the value in the unsigned type.
StrtoulValue(scan) ==
  IF scan.overflow THEN UlongMax
  ELSE IF scan.sign = "-" THEN Negate(scan.value)
  ELSE scan.value

\* *str_end == '\0' && str_end != str
ParseIntStatus(str, str_end) == str_end = Len(str) + 1 /\ str_end # 1

\* TryParseNumber(str, out) for an integer type: uint64_t has the strtoul
\* specialization, the other types go through strtol and a static_cast.
TryParseNumber(number, str) ==
  With(StrtolScan(str), LAMBDA scan :
    [out |-> IF number = "uint64" THEN StrtoulValue(scan)
             ELSE Cast(number, StrtolValue(scan)),
     ok |-> ParseIntStatus(str, scan.str_end)])

Parsed(tok, out) == [tokenizer |-> tok, out |-> out]

\* `status` as the status of the tokenizer when it is not OK.
SetStatus(tok, ok) ==
  IF ok THEN tok
  ELSE AssignStatus(tok, [OkStatus EXCEPT
                            !.ok = FALSE,
                            !.message = "can't parse number from JSON string"])

\* The cases of ParseJsonNumber, which all call tokenizer.Next(): `next` is
\* the tokenizer after that call.  string_value is a reference into the state,
\* read after Next().  A float is not converted: the parse is marked.
ParseJsonNumberCase(number, tok, out, next) ==
  CASE tok.token_type = "kTrue" -> Parsed(next, Cast(number, Int64Of(1)))
    [] tok.token_type \in {"kFalse", "kZero"} -> Parsed(next, out)
    [] tok.token_type = "kUnsignedInteger" -> Parsed(next, Cast(number, tok.uint_value))
    [] tok.token_type = "kSignedInteger" -> Parsed(next, Cast(number, tok.int_value))
    [] tok.token_type = "kFloat" -> Parsed([next EXCEPT !.unmodelled = TRUE], out)
    [] tok.token_type = "kString" ->
         With(TryParseNumber(number, CStr(next.string_value)), LAMBDA tried :
           Parsed(SetStatus(next, tried.ok), tried.out))

\* ParseJsonNumber<number>(tokenizer, out) for an integer type.
ParseJsonNumber(number, tok, out) ==
  IF tok.token_type \in {"kTrue", "kFalse", "kZero", "kUnsignedInteger",
                         "kSignedInteger", "kFloat", "kString"}
  THEN ParseJsonNumberCase(number, tok, out, JsonNext(tok))
  ELSE Parsed(PushUnexpectedTokenError(tok, "number"), out)

Reader(tok, more) == [tokenizer |-> tok, zero_state_ |-> FALSE, more |-> more]

\* The first call of NextElement, `first` being the tokenizer after its Next():
\* the token returned is kError when the status was not OK before the call.
FirstElement(tok, first) ==
  IF tok.status.ok /\ first.token_type = "kRightSquareBracket"
  THEN Reader(JsonNext(first), FALSE)
  ELSE Reader(first, TRUE)

\* JsonArrayReader::NextElement(): the tokenizer and zero_state_ after the
\* call, and the value returned.
NextElement(tok, zero_state_) ==
  IF zero_state_ \/ tok.token_type \in {"kComma", "kRightSquareBracket"}
  THEN With(JsonNext(tok), LAMBDA next :
         IF zero_state_ THEN FirstElement(tok, next)
         ELSE Reader(next, tok.token_type = "kComma"))
  ELSE Reader(PushUnexpectedTokenError(tok, "','"), FALSE)

\* The end of the JSON branch of Parse<T>: the status returned.
ParseReturn(tok) ==
  IF tok.token_type # "kStrEnd" THEN PushUnexpectedTokenError(tok, "end") ELSE tok

\* The next position of Parse: "crashed" once a read has faulted.
Pc(tok, pc) == IF tok.fault THEN "crashed" ELSE pc

\* bytes_or_json starts with "soia": the text is taken as binary.
IsSoia(bytes_or_json) ==
  Len(bytes_or_json) >= 4 /\ SubSeq(bytes_or_json, 1, 4) = <<"s", "o", "i", "a">>

\* The integer types T that Parse<T> is called with.
NumberTargets == {"int32", "int64", "uint64"}

\* Parse<T>(json): T result{}, tokenizer.Next(), Parse(tokenizer, result).  For
\* an integer type the call returns; for std::vector<int32_t>, ArrayAdapter::Parse
\* returns on a zero and otherwise enters its loop.  What is returned is the
\* status and, when it is OK, result: parse.out holds no value otherwise.
ParseJson ==
  /\ parse.pc = "start"
  /\ ~IsSoia(tokenizer.chars)
  /\ \E first \in {JsonNext(tokenizer)} :
       IF parse.target \in NumberTargets
       THEN \E parsed \in {ParseJsonNumber(parse.target, first, Int64Of(0))} :
            \E tok \in {ParseReturn(parsed.tokenizer)} :
              /\ tokenizer' = tok
              /\ parse' = [parse EXCEPT !.pc = Pc(tok, "done"),
                                        !.out = IF tok.status.ok THEN <<parsed.out>>
                                                ELSE <<>>,
                                        !.status = tok.status]
       ELSE IF first.token_type = "kZero"
       THEN \E tok \in {ParseReturn(JsonNext(first))} :
              /\ tokenizer' = tok
              /\ parse' = [parse EXCEPT !.pc = Pc(tok, "done"), !.status = tok.status]
       ELSE \E tok \in {IF first.token_type = "kLeftSquareBracket" THEN first
                        ELSE PushErrorAtPosition(first, "'['")} :
              /\ tokenizer' = tok
              /\ parse' = [parse EXCEPT !.pc = Pc(tok, "loop"), !.zero_state_ = TRUE]
  /\ UNCHANGED keyedVars
  /\ UNCHANGED codecVars

\* while (array_reader.NextElement()) ParseAndPush(tokenizer, out): one test of
\* the condition, then either the body or the rest of Parse<T>.
ArrayParseLoop ==
  /\ parse.pc = "loop"
  /\ parse.steps < MaxSteps
  /\ \E reader \in {NextElement(tokenizer, parse.zero_state_)} :
       IF reader.more
       THEN \E parsed \in {ParseJsonNumber("int32", reader.tokenizer, Int64Of(0))} :
              /\ tokenizer' = parsed.tokenizer
              /\ parse' = [parse EXCEPT !.pc = Pc(parsed.tokenizer, "loop"),
                                        !.zero_state_ = reader.zero_state_,
                                        !.out = Append(@, parsed.out),
                                        !.steps = @ + 1]
       ELSE \E tok \in {ParseReturn(reader.tokenizer)} :
              /\ tokenizer' = tok
              /\ parse' = [parse EXCEPT !.pc = Pc(tok, "done"),
                                        !.zero_state_ = reader.zero_state_,
                                        !.out = IF tok.status.ok THEN @ ELSE <<>>,
                                        !.status = tok.status]
  /\ UNCHANGED keyedVars
  /\ UNCHANGED codecVars

\* The characters of the JSON texts, and the one that follows a text in
\* memory: the terminator of a std::string, or more text.
JsonChars == {"[", "]", ",", "\"", "x", "0", "1", " "}
Beyonds == {"NUL", " "}
JsonTexts == UNION {[1 .. n -> JsonChars] : n \in 0 .. MaxJsonLen}
Targets == {"int32", "int32[]"}

InitJson ==
  /\ ki = DefaultKeyedItems
  /\ hash = [key \in 1 .. MaxKey + 1 |-> 0]
  /\ op = "keyed_items"
  /\ halted = "running"
  /\ input = NoValue
  /\ byte_sink = NoSink
  /\ result = NoResult
  /\ byte_source = NoSource
  /\ phase = "input"
  /\ \E chars \in JsonTexts, beyond \in Beyonds :
       tokenizer = NewJsonTokenizer(chars, beyond)
  /\ \E target \in Targets :
       parse = [NoParse EXCEPT !.target = target, !.pc = "start"]

NextJson ==
  \/ ParseJson
  \/ ArrayParseLoop

SpecJson == InitJson /\ [][NextJson]_vars

\* C8: top-level Parse of a JSON text runs its decoding loop a number of
\* times bounded by the length of the text (one element for each character
\* at most, and one more for the test that ends the loop).
C8_StepsBoundedByInput == parse.steps <= Len(tokenizer.chars) + 1

\* C17: once the status of the tokenizer is not OK it does not change any
\* more: it stays the first error that was recorded, that error is the one
\* Parse returns, and a later Next() leaves the tokenizer where it is.
C17_FirstErrorIsKept ==
  /\ ~tokenizer.first_status.ok => tokenizer.status = tokenizer.first_status
  /\ (parse.pc = "done" /\ ~tokenizer.first_status.ok) =>
       parse.status = tokenizer.first_status
  /\ ~tokenizer.status.ok => JsonNext(tokenizer) = tokenizer

\* C27: whatever follows the text in memory, a NUL or not, and whatever
\* the text ends with, the position of the tokenizer never passes the end of
\* the text and no read is made past the character at the end.
C27_PosWithinSpan ==
  tokenizer.pos <= Len(tokenizer.chars) /\ ~tokenizer.fault

\* The same for the texts that do not end with a space: the tokenizer stays
\* within those.
PosWithinSpanUnlessSpaceAtEnd ==
  (tokenizer.chars = <<>> \/ tokenizer.chars[Len(tokenizer.chars)] # " ")
    => (tokenizer.pos <= Len(tokenizer.chars) /\ ~tokenizer.fault)

\* With a status that is not OK the token of the tokenizer is kError.
ErrorTokenOnError == ~tokenizer.status.ok => tokenizer.token_type = "kError"

\* C26: whenever the status of the tokenizer is not OK its token_type is
\* kError, however the error was recorded, so the loop of a reader that
\* looks at token_type ends at its first step after an error.
C26_ReadersStopOnError ==
  /\ []ErrorTokenOnError
  /\ [][(~tokenizer.status.ok /\ parse.pc # "done") => parse'.pc = "done"]_vars


(***************************************************************************)
(* Dense JSON of 64-bit integers, and the round trip through Parse.        *)
(***************************************************************************)
\* value / 10 and value % 10 of an unsigned 64-bit value.
DivMod10(value) ==
  LET c4 == value[4]
      c3 == (c4 % 10) * LimbBase + value[3]
      c2 == (c3 % 10) * LimbBase + value[2]
      c1 == (c2 % 10) * LimbBase + value[1] IN
  [quotient |-> <<c1 \div 10, c2 \div 10, c3 \div 10, c4 \div 10>>,
   remainder |-> c1 % 10]

RECURSIVE DecimalDigits(_)
DecimalDigits(value) ==
  IF value = Int64Of(0) THEN <<>>
  ELSE With(DivMod10(value), LAMBDA division :
         Append(DecimalDigits(division.quotient), Digits[division.remainder + 1]))

\* absl::StrAppend(&out, value) for uint64_t and for int64_t.
StrAppendUnsigned(value) ==
  IF value = Int64Of(0) THEN <<"0">> ELSE DecimalDigits(value)

StrAppendSigned(value) ==
  IF IsNegative(value) THEN <<"-">> \o DecimalDigits(Negate(value))
  ELSE StrAppendUnsigned(value)

\* -(2 ^ 53) and 2 ^ 53
kMinSafeJavascriptInt == <<0, 0, 0, LimbBase - 32>>
kMaxSafeJavascriptInt == <<0, 0, 0, 32>>

\* Int64Adapter::Append(input, out) for dense and readable JSON.
Int64JsonAppend(value) ==
  IF ~SignedLess(value, kMinSafeJavascriptInt) /\ ~SignedLess(kMaxSafeJavascriptInt, value)
  THEN StrAppendSigned(value)
  ELSE <<"\"">> \o StrAppendSigned(value) \o <<"\"">>

\* Uint64Adapter::Append(input, out) for dense and readable JSON.
Uint64JsonAppend(value) ==
  IF ~UnsignedLess(kMaxSafeJavascriptInt, value)
  THEN StrAppendUnsigned(value)
  ELSE <<"\"">> \o StrAppendUnsigned(value) \o <<"\"">>

\* Int32Adapter::Append(input, out) for dense and readable JSON.
Int32JsonAppend(value) == StrAppendSigned(value)

JsonAppendValue(type, value) ==
  CASE type = "int32" -> Int32JsonAppend(value)
    [] type = "int64" -> Int64JsonAppend(value)
    [] type = "uint64" -> Uint64JsonAppend(value)

\* The limbs of the values that are written: around 0, 2^53, 2^63 and 2^64.
JsonLowLimbs == {0, 1, LimbBase - 1}
JsonHighLimbs == {0, 31, 32, LimbBase \div 2 - 1, LimbBase \div 2, LimbBase - 33,
                  LimbBase - 32, LimbBase - 1}
JsonInputs ==
  {[type |-> t, value |-> <<a, b, c, h>>] :
     t \in {"int64", "uint64"}, a \in JsonLowLimbs, b \in JsonLowLimbs,
     c \in JsonLowLimbs, h \in JsonHighLimbs}
  \cup {[type |-> "int32", value |-> Cast("int32", <<a, b, 0, 0>>)] :
          a \in JsonLowLimbs, b \in {0, 1, LimbBase \div 2 - 1, LimbBase \div 2, LimbBase - 1}}

\* ToDenseJson(input): the result is a std::string, which ends with '\0'.
ToDenseJson ==
  /\ parse.pc = "value"
  /\ tokenizer' = NewJsonTokenizer(JsonAppendValue(input.type, input.value), "NUL")
  /\ parse' = [parse EXCEPT !.pc = "start"]
  /\ UNCHANGED keyedVars
  /\ UNCHANGED codecVars

InitJsonCodec ==
  /\ ki = DefaultKeyedItems
  /\ hash = [key \in 1 .. MaxKey + 1 |-> 0]
  /\ op = "keyed_items"
  /\ halted = "running"
  /\ input \in JsonInputs
  /\ byte_sink = NoSink
  /\ result = NoResult
  /\ byte_source = NoSource
  /\ phase = "input"
  /\ tokenizer = NoTokenizer
  /\ parse = [NoParse EXCEPT !.target = input.type, !.pc = "value"]

NextJsonCodec ==
  \/ ToDenseJson
  \/ ParseJson

SpecJsonCodec == InitJsonCodec /\ [][NextJsonCodec]_vars

\* C11: parsing the JSON that ToDenseJson wrote for an int64 or a uint64
\* yields the value that was written, with status OK.
C11_Int64JsonRoundTrip ==
  (parse.pc = "done" /\ parse.target \in {"int64", "uint64"})
    => parse.status.ok /\ parse.out = <<input.value>>

\* An int64 below -(2 ^ 53), written as a quoted string, has been parsed.
C11_QuotedInt64Parsed ==
  /\ parse.pc = "done"
  /\ parse.target = "int64"
  /\ input.value = <<LimbBase - 1, LimbBase - 1, LimbBase - 1, LimbBase - 33>>
  /\ tokenizer.chars = <<"\"", "-", "9", "0", "0", "7", "1", "9", "9", "2", "5", "4",
                         "7", "4", "0", "9", "9", "3", "\"">>
  /\ parse.out = <<input.value>>

(***************************************************************************)
(* Unrecognized fields: UnrecognizedValues, ParseUnrecognizedFields, and a  *)
(* struct Point {x: int32; y: int32; removed;} that is read from encodings  *)
(* written with a newer version of its schema.                              *)
(***************************************************************************)
\* UnrecognizedValues(): bytes_ is held as the bytes pushed so far.
NewUnrecognizedValues == [bytes_ |-> <<>>, array_lengths_ |-> <<>>]

\* bytes_.PushRange(source.pos - n, source.pos) after source.pos += n - 1:
\* the wire that was read and the n - 1 bytes that follow it.
TakeBytes(source, values, n) ==
  IF num_bytes_left(source) < n - 1
  THEN [source |-> RaiseError(source), values |-> values, more |-> 0]
  ELSE [source |-> Advance(source, n - 1),
        values |-> [values EXCEPT !.bytes_ = @ \o SubSeq(source.bytes, source.pos,
                                                          source.pos + n - 1)],
        more |-> 0]

\* bytes_.Push(wire)
TakeWire(wire, source, values, more) ==
  [source |-> source, values |-> [values EXCEPT !.bytes_ = Append(@, wire)],
   more |-> more]

\* UnrecognizedValues::ParseFrom(ByteSource&): the switch on the wire that
\* was read, `source` being the source after the read.
ParseFromWire(wire, source, values) ==
  CASE wire = 235 -> TakeBytes(source, values, 2)
    [] wire \in {232, 236} -> TakeBytes(source, values, 3)
    [] wire \in {233, 237, 240} -> TakeBytes(source, values, 5)
    [] wire \in {234, 238, 239, 241} -> TakeBytes(source, values, 9)
    [] wire \in {243, 245} ->
         With(ParseNumber("uint32", source, Int64Of(0)), LAMBDA length :
           IF num_bytes_left(length.source) < CountOf(length.source, length.out)
           THEN [source |-> RaiseError(length.source), values |-> values, more |-> 0]
           ELSE [source |-> Advance(length.source, length.out[1]),
                 values |-> [values EXCEPT !.bytes_ =
                    @ \o SubSeq(source.bytes, source.pos,
                                length.source.pos + length.out[1])],
                 more |-> 0])
    [] wire \in {247, 248, 249} -> TakeWire(wire, source, values, wire - 246)
    [] wire = 250 ->
         With(ParseNumber("uint32", source, Int64Of(0)), LAMBDA array_len :
           TakeWire(wire, array_len.source,
                    [values EXCEPT !.array_lengths_ =
                       Append(@, CountOf(array_len.source, array_len.out))],
                    CountOf(array_len.source, array_len.out)))
    [] wire \in {251, 252, 253, 254} -> TakeWire(wire, source, values, 1)
    [] OTHER ->
         IF wire = 0 /\ source.error
         THEN [source |-> source, values |-> values, more |-> 0]
         ELSE TakeWire(wire, source, values, 0)

\* UnrecognizedValues::ParseFrom(ByteSource&): the loop. It returns from
\* the cases that raise an error.
RECURSIVE ParseFromLoop(_, _, _)
ParseFromLoop(source, values, num_values_left) ==
  IF num_values_left = 0 THEN [source |-> source, values |-> values]
  ELSE With(ReadWire(source), LAMBDA read :
       With(ParseFromWire(read.wire, read.source, values), LAMBDA taken :
         IF taken.source.error /\ (~read.source.error \/ read.wire = 0)
         THEN [source |-> taken.source, values |-> taken.values]
         ELSE ParseFromLoop(taken.source, taken.values,
                            num_values_left + taken.more - 1)))

\* UnrecognizedValues::ParseFrom(ByteSource&)
ParseFrom(source, values) == ParseFromLoop(source, values, 1)

\* SkipValues(ByteSource&, n)
RECURSIVE SkipValues(_, _)
SkipValues(source, n) ==
  IF n = 0 \/ source.error THEN source
  ELSE SkipValues(SkipValue(source), n - 1)

\* for (size_t i = first; i < array_len; ++i) { if (source.error) return;
\* out->values.ParseFrom(source); } with array_len - i = left
RECURSIVE ParseFromEach(_, _, _)
ParseFromEach(source, values, left) ==
  IF left <= 0 \/ source.error THEN [source |-> source, values |-> values]
  ELSE With(ParseFrom(source, values), LAMBDA parsed :
         ParseFromEach(parsed.source, parsed.values, left - 1))

\* ParseUnrecognizedFields that captures the slots whatever the policy says.
ParseUnrecognizedFieldsAlwaysKeep(source, array_len, num_slots, num_slots_incl_removed, out) ==
  IF array_len > num_slots_incl_removed
  THEN LET num_trailing_removed == num_slots_incl_removed - num_slots IN
       With(ParseFromEach(SkipValues(source, num_trailing_removed),
                          NewUnrecognizedValues, array_len - num_trailing_removed),
            LAMBDA parsed :
              [source |-> parsed.source,
               out |-> <<[array_len |-> array_len, values |-> parsed.values]>>])
  ELSE [source |-> SkipValues(source, array_len - num_slots), out |-> out]

\* ParseUnrecognizedFields(ByteSource&, array_len, num_slots,
\* num_slots_incl_removed, out): out is <<>> for a null pointer, else the one
\* UnrecognizedFieldsData it points to.
ParseUnrecognizedFields(source, array_len, num_slots, num_slots_incl_removed, out) ==
  IF array_len > num_slots_incl_removed /\ source.keep_unrecognized_fields
  THEN LET num_trailing_removed == num_slots_incl_removed - num_slots IN
       With(ParseFromEach(SkipValues(source, num_trailing_removed),
                          NewUnrecognizedValues, array_len - num_trailing_removed),
            LAMBDA parsed :
              [source |-> parsed.source,
               out |-> <<[array_len |-> array_len, values |-> parsed.values]>>])
  ELSE [source |-> SkipValues(source, array_len - num_slots), out |-> out]

\* total_bytes of UnrecognizedValues::AppendTo(ByteSink&)
RECURSIVE PrefixBytes(_)
PrefixBytes(array_lengths_) ==
  IF array_lengths_ = <<>> THEN 0
  ELSE (IF Head(array_lengths_) < 4 THEN 0
        ELSE IF Head(array_lengths_) < 232 THEN 1 ELSE 3)
       + PrefixBytes(Tail(array_lengths_))

\* out.PushRangeUnsafe(source.pos, source.pos += n)
CopyBytes(source, n, out) ==
  [source |-> Advance(source, n), out |-> PushAllUnsafe(out, BytesAt(source, n))]

\* UnrecognizedValues::AppendTo(ByteSink&): the loop over bytes_, `source`
\* being the ByteSource on them and `lengths` the array lengths not yet used.
RECURSIVE AppendToLoop(_, _, _)
AppendToLoop(source, lengths, out) ==
  IF source.pos >= Len(source.bytes) THEN out
  ELSE With(source.bytes[source.pos + 1], LAMBDA byte :
       With(CASE byte \in {232, 236} -> CopyBytes(source, 3, out)
              [] byte \in {233, 237, 240} -> CopyBytes(source, 5, out)
              [] byte \in {234, 238, 239, 241} -> CopyBytes(source, 9, out)
              [] byte = 235 -> CopyBytes(source, 2, out)
              [] byte \in {243, 245} ->
                   With(ParseNumber("uint32", Advance(source, 1), Int64Of(0)),
                        LAMBDA length :
                          CopyBytes(source, length.source.pos + length.out[1]
                                              - source.pos, out))
              [] byte = 250 ->
                   [source |-> Advance(source, 1),
                    out |-> AppendArrayPrefix(Head(lengths), out)]
              [] OTHER -> CopyBytes(source, 1, out),
            LAMBDA copied :
              AppendToLoop(copied.source,
                           IF byte = 250 THEN Tail(lengths) ELSE lengths,
                           copied.out)))

\* UnrecognizedValues::AppendTo(ByteSink&)
AppendTo(values, out) ==
  AppendToLoop(NewByteSource(values.bytes_), values.array_lengths_,
               Prepare(out, Len(values.bytes_) + PrefixBytes(values.array_lengths_)))

\* The struct Point of the schema that decodes: the slots 0 and 1 hold the
\* int32 fields x and y, the slot 2 is the one of a removed field.
kNumSlots == 2
kNumSlotsInclRemoved == 3

\* Point{}
DefaultPoint == [x |-> Int64Of(0), y |-> Int64Of(0), unrecognized |-> <<>>]

\* The slots x and y of a Point read from an array of array_len slots; a slot
\* the array does not have is left at its default.
ParsePointSlots(source, array_len) ==
  IF array_len = 0 THEN [source |-> source, out |-> DefaultPoint]
  ELSE With(ParseNumber("int32", source, Int64Of(0)), LAMBDA x :
         IF array_len = 1
         THEN [source |-> x.source, out |-> [DefaultPoint EXCEPT !.x = x.out]]
         ELSE With(ParseNumber("int32", x.source, Int64Of(0)), LAMBDA y :
                [source |-> y.source,
                 out |-> [DefaultPoint EXCEPT !.x = x.out, !.y = y.out]]))

\* Parse(ByteSource&, Point&): the array prefix, the slots of the known
\* fields one after the other, and ParseUnrecognizedFields on an array that
\* has more slots than the known fields take.
ParsePointSlotsAndRest(prefix) ==
  With(CountOf(prefix.source, prefix.out), LAMBDA array_len :
  With(ParsePointSlots(prefix.source, array_len), LAMBDA slots :
    IF array_len <= kNumSlots THEN slots
    ELSE With(ParseUnrecognizedFields(slots.source, array_len, kNumSlots,
                                      kNumSlotsInclRemoved, <<>>),
              LAMBDA rest :
                [source |-> rest.source,
                 out |-> [slots.out EXCEPT !.unrecognized = rest.out]])))

PointParse(source) == ParsePointSlotsAndRest(ParseArrayPrefix(source))

\* The slots a Point without unrecognized fields is written with: up to the
\* last field that is not a default.
NumSlotsToWrite(point) ==
  IF point.y # Int64Of(0) THEN 2 ELSE IF point.x # Int64Of(0) THEN 1 ELSE 0

\* out.Push(0) for each of the n removed slots
RECURSIVE AppendRemoved(_, _)
AppendRemoved(n, out) ==
  IF n = 0 THEN out ELSE AppendRemoved(n - 1, Push(out, <<0>>))

\* Append(const Point&, ByteSink&): with unrecognized fields, the array of
\* the slot count seen on the wire, the known fields, 0 for the removed
\* slot, and the unrecognized values; without, the known fields up to the
\* last one that is not a default.
PointAppend(point, out) ==
  IF point.unrecognized # <<>>
  THEN AppendTo(point.unrecognized[1].values,
         AppendRemoved(kNumSlotsInclRemoved - kNumSlots,
           Int32Append(point.y,
             Int32Append(point.x,
               AppendArrayPrefix(point.unrecognized[1].array_len, out)))))
  ELSE With(NumSlotsToWrite(point), LAMBDA n :
         With(AppendArrayPrefix(n, out), LAMBDA prefixed :
           IF n = 0 THEN prefixed
           ELSE IF n = 1 THEN Int32Append(point.x, prefixed)
           ELSE Int32Append(point.y, Int32Append(point.x, prefixed))))

\* The values of the slots the decoding schema does not know, as the
\* encoders write them: 1, 300, -1, "a", an absent optional, an array of one
\* and of four values, an enum 251 with its value.
UnknownSlots ==
  {<<1>>, <<232, 44, 1>>, <<235, 255>>, <<243, 1, 97>>, <<255>>, <<247, 7>>,
   <<250, 4, 1, 0, 243, 1, 97, 247, 2>>, <<251, 243, 1, 97>>}

\* The most slots an encoding has after the ones of the decoding schema.
MaxUnknownSlots == 2

\* The fields x and y of the Points that are encoded.
PointFields == {Int64Of(0), Int64Of(1), Int64Of(300)}

RECURSIVE Flatten(_)
Flatten(seqs) == IF seqs = <<>> THEN <<>> ELSE Head(seqs) \o Flatten(Tail(seqs))

\* ToBytes of a Point by a schema that has `unknown` more fields after the
\* three slots: without them, the encoding of the decoding schema itself.
NewerPointBytes(x, y, unknown) ==
  IF unknown = <<>>
  THEN ToByteString(PointAppend([DefaultPoint EXCEPT !.x = x, !.y = y], NewByteSink))
  ELSE ToByteString(AppendArrayPrefix(kNumSlotsInclRemoved + Len(unknown), NewByteSink))
       \o ToByteString(Int32Append(x, NewByteSink))
       \o ToByteString(Int32Append(y, NewByteSink))
       \o <<0>>
       \o Flatten(unknown)

\* The Points that are encoded and the slots that follow their three slots.
PointInputs ==
  {<<x, y, unknown>> :
     x \in PointFields, y \in PointFields,
     unknown \in UNION {[1 .. n -> UnknownSlots] : n \in 0 .. MaxUnknownSlots}}

\* soia::Parse<Point>(bytes, policy) on bytes that start with "soia".
ParsePointBytes ==
  /\ phase = "received"
  /\ \E parsed \in {PointParse(byte_source)} :
       /\ byte_source' = parsed.source
       /\ result' =
            IF parsed.source.error \/ parsed.source.pos < Len(parsed.source.bytes)
            THEN [ok |-> FALSE, value |-> <<>>, unmodelled |-> parsed.source.unmodelled]
            ELSE [ok |-> TRUE, value |-> <<parsed.out>>,
                  unmodelled |-> parsed.source.unmodelled]
  /\ phase' = "parsed"
  /\ UNCHANGED <<input, byte_sink>>
  /\ UNCHANGED keyedVars
  /\ UNCHANGED jsonVars

\* soia::ToBytes(point) on the Point that Parse returned.
ReencodePoint ==
  /\ phase = "parsed"
  /\ input.type = "Point"
  /\ result.ok
  /\ byte_sink' = PointAppend(result.value[1], Push(NewByteSink, kSoia))
  /\ phase' = "reencoded"
  /\ UNCHANGED <<input, result, byte_source>>
  /\ UNCHANGED keyedVars
  /\ UNCHANGED jsonVars

InitStruct ==
  /\ ki = DefaultKeyedItems
  /\ hash = [key \in 1 .. MaxKey + 1 |-> 0]
  /\ op = "keyed_items"
  /\ halted = "running"
  /\ \E point \in PointInputs, keep \in BOOLEAN :
       /\ input = [type |-> "Point", value |-> point]
       /\ byte_source = [NewByteSource(NewerPointBytes(point[1], point[2], point[3]))
                           EXCEPT !.keep_unrecognized_fields = keep]
  /\ byte_sink = NoSink
  /\ result = NoResult
  /\ phase = "received"
  /\ tokenizer = NoTokenizer
  /\ parse = NoParse


\* The value tokenizer.Next() returns, `next` being the tokenizer after the
\* call made on `tok`.
Returned(tok, next) == IF tok.status.ok THEN next.token_type ELSE "kError"

\* static_cast<char>(token_type) of a closing bracket
ClosingChar(token_type) ==
  CASE token_type = "kRightSquareBracket" -> "]"
    [] token_type = "kRightCurlyBracket" -> "}"
    [] OTHER -> ""

\* back() and the rest after pop_back()
Back(seq) == seq[Len(seq)]
Front(seq) == SubSeq(seq, 1, Len(seq) - 1)

\* A SkipName that stays on the colon.
SkipNameToColon(tok) ==
  IF tok.token_type # "kString"
  THEN [tokenizer |-> PushUnexpectedTokenError(tok, "string"), returned |-> TRUE]
  ELSE With(JsonNext(tok), LAMBDA colon :
         IF Returned(tok, colon) # "kColon"
         THEN [tokenizer |-> PushUnexpectedTokenError(colon, "':'"), returned |-> TRUE]
         ELSE [tokenizer |-> colon, returned |-> FALSE])

\* SkipValue(JsonTokenizer&): the name and the colon of an entry of an object.
SkipName(tok) ==
  IF tok.token_type # "kString"
  THEN [tokenizer |-> PushUnexpectedTokenError(tok, "string"), returned |-> TRUE]
  ELSE With(JsonNext(tok), LAMBDA colon :
         IF Returned(tok, colon) # "kColon"
         THEN [tokenizer |-> PushUnexpectedTokenError(colon, "':'"), returned |-> TRUE]
         ELSE [tokenizer |-> JsonNext(colon), returned |-> FALSE])

\* The cases kLeftSquareBracket and kLeftCurlyBracket of SkipValue, `next`
\* being the tokenizer after Next(): an empty array or object is passed,
\* another one is entered.
SkipOpening(tok, next, closed_by, closing) ==
  IF Returned(tok, next) = closed_by
  THEN [tokenizer |-> JsonNext(next), open |-> "", outcome |-> "break"]
  ELSE [tokenizer |-> next, open |-> closing, outcome |-> "continue"]

\* SkipValue(JsonTokenizer&): the switch on the token.
SkipToken(tok) ==
  IF tok.token_type \in {"kTrue", "kFalse", "kNull", "kZero", "kUnsignedInteger",
                         "kSignedInteger", "kFloat", "kString",
                         "kLeftSquareBracket", "kLeftCurlyBracket"}
  THEN With(JsonNext(tok), LAMBDA next :
         CASE tok.token_type = "kLeftSquareBracket" ->
                SkipOpening(tok, next, "kRightSquareBracket", "]")
           [] tok.token_type = "kLeftCurlyBracket" ->
                SkipOpening(tok, next, "kRightCurlyBracket", "}")
           [] OTHER -> [tokenizer |-> next, open |-> "", outcome |-> "break"])
  ELSE [tokenizer |-> PushUnexpectedTokenError(tok, "value"), open |-> "",
        outcome |-> "return"]

\* while (!open_brackets.empty() && open_brackets.back() == token_type)
RECURSIVE CloseBrackets(_, _)
CloseBrackets(tok, open_brackets) ==
  IF open_brackets # <<>> /\ Back(open_brackets) = ClosingChar(tok.token_type)
  THEN CloseBrackets(JsonNext(tok), Front(open_brackets))
  ELSE [tokenizer |-> tok, open_brackets |-> open_brackets]

\* SkipValue(JsonTokenizer&): the loop, from its top.
RECURSIVE SkipJsonLoop(_, _)
SkipJsonLoop(tok, open_brackets) ==
  With(IF open_brackets # <<>> /\ Back(open_brackets) = "}"
       THEN SkipName(tok) ELSE [tokenizer |-> tok, returned |-> FALSE],
       LAMBDA named :
    IF named.returned THEN named.tokenizer
    ELSE With(SkipToken(named.tokenizer), LAMBDA skipped :
      IF skipped.outcome = "return" THEN skipped.tokenizer
      ELSE IF skipped.outcome = "continue"
      THEN SkipJsonLoop(skipped.tokenizer, Append(open_brackets, skipped.open))
      ELSE With(CloseBrackets(skipped.tokenizer, open_brackets), LAMBDA closed :
        IF closed.open_brackets = <<>> THEN closed.tokenizer
        ELSE IF closed.tokenizer.token_type = "kComma"
        THEN SkipJsonLoop(JsonNext(closed.tokenizer), closed.open_brackets)
        ELSE PushUnexpectedTokenError(closed.tokenizer, "','"))))

\* SkipValue(JsonTokenizer&)
SkipJsonValue(tok) == SkipJsonLoop(tok, <<>>)

\* The byte of a character of a JSON text.
CharByte(c) ==
  CASE c = "x" -> 120 [] c = "0" -> 48 [] c = "1" -> 49 [] c = " " -> 32
    [] c = "[" -> 91 [] c = "]" -> 93 [] c = "{" -> 123 [] c = "}" -> 125
    [] c = "," -> 44 [] c = ":" -> 58 [] c = "NUL" -> 0 [] OTHER -> 63

\* Adapter::Append(value, bytes_) on the values after the ones taken so far
Taken(values, sink) == [values EXCEPT !.bytes_ = @ \o ToByteString(sink)]

\* UnrecognizedValues::ParseFrom(JsonTokenizer&): the cases of the switch
\* that push the bytes of one value and call Next().
TakeJsonScalar(tok, values) ==
  CASE tok.token_type = "kTrue" -> Taken(values, Push(NewByteSink, <<1>>))
    [] tok.token_type \in {"kZero", "kFalse"} -> Taken(values, Push(NewByteSink, <<0>>))
    [] tok.token_type = "kNull" -> Taken(values, Push(NewByteSink, <<255>>))
    [] tok.token_type = "kUnsignedInteger" ->
         Taken(values, Uint64Append(tok.uint_value, NewByteSink))
    [] tok.token_type = "kSignedInteger" ->
         Taken(values, Int64Append(tok.int_value, NewByteSink))
    [] tok.token_type = "kString" ->
         Taken(values, StringAppend([i \in 1 .. Len(tok.string_value) |->
                                       CharByte(tok.string_value[i])], NewByteSink))

\* UnrecognizedValues::ParseFrom(JsonTokenizer&): the switch on the token.
\* `entered` tells that an array was entered: its index is pushed on
\* index_of_array_stack.
TakeJsonToken(tok, values) ==
  CASE tok.token_type \in {"kTrue", "kZero", "kFalse", "kNull", "kUnsignedInteger",
                           "kSignedInteger", "kString"} ->
         [tokenizer |-> JsonNext(tok), values |-> TakeJsonScalar(tok, values),
          entered |-> FALSE, outcome |-> "break"]
    [] tok.token_type = "kFloat" ->
         [tokenizer |-> [JsonNext(tok) EXCEPT !.unmodelled = TRUE], values |-> values,
          entered |-> FALSE, outcome |-> "break"]
    [] tok.token_type = "kLeftSquareBracket" ->
         With(JsonNext(tok), LAMBDA next :
           IF Returned(tok, next) = "kRightSquareBracket"
           THEN [tokenizer |-> JsonNext(next),
                 values |-> Taken(values, Push(NewByteSink, <<246>>)),
                 entered |-> FALSE, outcome |-> "break"]
           ELSE [tokenizer |-> next,
                 values |-> [bytes_ |-> Append(values.bytes_, 250),
                             array_lengths_ |-> Append(values.array_lengths_, 0)],
                 entered |-> TRUE, outcome |-> "continue"])
    [] tok.token_type = "kLeftCurlyBracket" ->
         [tokenizer |-> SkipJsonValue(tok),
          values |-> Taken(values, Push(NewByteSink, <<0>>)),
          entered |-> FALSE, outcome |-> "continue"]
    [] OTHER ->
         [tokenizer |-> PushUnexpectedTokenError(tok, "value"), values |-> values,
          entered |-> FALSE, outcome |-> "return"]

\* while (!index_of_array_stack.empty() && token_type == kRightSquareBracket)
RECURSIVE CloseArrays(_, _)
CloseArrays(tok, index_of_array_stack) ==
  IF index_of_array_stack # <<>> /\ tok.token_type = "kRightSquareBracket"
  THEN CloseArrays(JsonNext(tok), Front(index_of_array_stack))
  ELSE [tokenizer |-> tok, index_of_array_stack |-> index_of_array_stack]

\* ++array_lengths_[index_of_array_stack.back()] at the top of the loop
CountElement(values, index_of_array_stack) ==
  IF index_of_array_stack = <<>> THEN values
  ELSE [values EXCEPT !.array_lengths_[Back(index_of_array_stack)] = @ + 1]

\* UnrecognizedValues::ParseFrom(JsonTokenizer&): the loop, from its top.
RECURSIVE JsonParseFromLoop(_, _, _)
JsonParseFromLoop(tok, values, index_of_array_stack) ==
  With(TakeJsonToken(tok, CountElement(values, index_of_array_stack)), LAMBDA taken :
    IF taken.outcome = "return"
    THEN [tokenizer |-> taken.tokenizer, values |-> taken.values]
    ELSE IF taken.outcome = "continue"
    THEN JsonParseFromLoop(taken.tokenizer, taken.values,
           IF taken.entered
           THEN Append(index_of_array_stack, Len(taken.values.array_lengths_))
           ELSE index_of_array_stack)
    ELSE With(CloseArrays(taken.tokenizer, index_of_array_stack), LAMBDA closed :
      IF closed.index_of_array_stack = <<>>
      THEN [tokenizer |-> closed.tokenizer, values |-> taken.values]
      ELSE IF closed.tokenizer.token_type = "kComma"
      THEN JsonParseFromLoop(JsonNext(closed.tokenizer), taken.values,
                             closed.index_of_array_stack)
      ELSE [tokenizer |-> PushUnexpectedTokenError(closed.tokenizer, "','"),
            values |-> taken.values]))

\* UnrecognizedValues::ParseFrom(JsonTokenizer&)
JsonParseFrom(tok, values) == JsonParseFromLoop(tok, values, <<>>)

\* for (i < num_trailing_removed) { SkipValue(tokenizer);
\* if (!array_reader.NextElement()) return; }
RECURSIVE SkipRemoved(_, _)
SkipRemoved(tok, left) ==
  IF left = 0 THEN [tokenizer |-> tok, returned |-> FALSE]
  ELSE With(NextElement(SkipJsonValue(tok), FALSE), LAMBDA reader :
         IF ~reader.more THEN [tokenizer |-> reader.tokenizer, returned |-> TRUE]
         ELSE SkipRemoved(reader.tokenizer, left - 1))

\* do { out->values.ParseFrom(tokenizer); ++out->array_len; }
\* while (array_reader.NextElement());
RECURSIVE JsonParseFromEach(_, _)
JsonParseFromEach(tok, data) ==
  With(JsonParseFrom(tok, data.values), LAMBDA parsed :
  With(NextElement(parsed.tokenizer, FALSE), LAMBDA reader :
    IF reader.more
    THEN JsonParseFromEach(reader.tokenizer,
           [array_len |-> data.array_len + 1, values |-> parsed.values])
    ELSE [tokenizer |-> reader.tokenizer,
          out |-> <<[array_len |-> data.array_len + 1, values |-> parsed.values]>>]))

\* do { SkipValue(tokenizer); } while (array_reader.NextElement());
RECURSIVE SkipEach(_)
SkipEach(tok) ==
  With(NextElement(SkipJsonValue(tok), FALSE), LAMBDA reader :
    IF reader.more THEN SkipEach(reader.tokenizer) ELSE reader.tokenizer)

\* ParseUnrecognizedFields(JsonArrayReader&, num_slots,
\* num_slots_incl_removed, out)
JsonParseUnrecognizedFields(tok, num_slots, num_slots_incl_removed, out) ==
  IF tok.keep_unrecognized_fields_
  THEN With(SkipRemoved(tok, num_slots_incl_removed - num_slots), LAMBDA skipped :
         IF skipped.returned THEN [tokenizer |-> skipped.tokenizer, out |-> out]
         ELSE JsonParseFromEach(skipped.tokenizer,
                [array_len |-> num_slots_incl_removed,
                 values |-> NewUnrecognizedValues]))
  ELSE [tokenizer |-> SkipEach(tok), out |-> out]

\* Parse(JsonTokenizer&, Point&) on a dense JSON array: the slots of the
\* known fields one after the other while the array has elements, then
\* ParseUnrecognizedFields on the elements that follow them.
PointJsonSlots(tok) ==
  With(NextElement(tok, TRUE), LAMBDA first :
    IF ~first.more THEN [tokenizer |-> first.tokenizer, out |-> DefaultPoint]
    ELSE
  With(ParseJsonNumber("int32", first.tokenizer, Int64Of(0)), LAMBDA x :
  With(NextElement(x.tokenizer, FALSE), LAMBDA second :
    IF ~second.more
    THEN [tokenizer |-> second.tokenizer, out |-> [DefaultPoint EXCEPT !.x = x.out]]
    ELSE
  With(ParseJsonNumber("int32", second.tokenizer, Int64Of(0)), LAMBDA y :
  With(NextElement(y.tokenizer, FALSE), LAMBDA third :
    IF ~third.more
    THEN [tokenizer |-> third.tokenizer,
          out |-> [DefaultPoint EXCEPT !.x = x.out, !.y = y.out]]
    ELSE
  With(JsonParseUnrecognizedFields(third.tokenizer, kNumSlots,
                                   kNumSlotsInclRemoved, <<>>), LAMBDA rest :
    [tokenizer |-> rest.tokenizer,
     out |-> [x |-> x.out, y |-> y.out, unrecognized |-> rest.out]]))))))

\* Parse(JsonTokenizer&, Point&): an array of slots, or 0 for the default.
PointJsonParse(tok) ==
  CASE tok.token_type = "kLeftSquareBracket" -> PointJsonSlots(tok)
    [] tok.token_type = "kZero" -> [tokenizer |-> JsonNext(tok), out |-> DefaultPoint]
    [] OTHER -> [tokenizer |-> PushUnexpectedTokenError(tok, "'['"), out |-> DefaultPoint]

\* The values of the slots the decoding schema does not know, in dense JSON,
\* each with the bytes and the array lengths that capture it: an object is
\* captured as 0, the rest as it is.
UnknownJsonSlots ==
  {[text |-> <<"1">>, bytes_ |-> <<1>>, array_lengths_ |-> <<>>],
   [text |-> <<"[", "]">>, bytes_ |-> <<246>>, array_lengths_ |-> <<>>],
   [text |-> <<"[", "1", ",", "0", "]">>, bytes_ |-> <<250, 1, 0>>,
    array_lengths_ |-> <<2>>],
   [text |-> <<"\"", "x", "\"">>, bytes_ |-> <<243, 1, 120>>, array_lengths_ |-> <<>>],
   [text |-> <<"{", "}">>, bytes_ |-> <<0>>, array_lengths_ |-> <<>>],
   [text |-> <<"{", "\"", "x", "\"", ":", "1", "}">>, bytes_ |-> <<0>>,
    array_lengths_ |-> <<>>],
   [text |-> <<"[", "{", "}", "]">>, bytes_ |-> <<250, 0>>, array_lengths_ |-> <<1>>],
   [text |-> <<"[", "0", ",", "{", "}", ",", "1", "]">>, bytes_ |-> <<250, 0, 0, 1>>,
    array_lengths_ |-> <<3>>]}

\* The fields x and y of the Points written in JSON.
PointJsonFields == {0, 1}

PointJsonInputs ==
  {<<x, y, unknown>> :
     x \in PointJsonFields, y \in PointJsonFields,
     unknown \in UNION {[1 .. n -> UnknownJsonSlots] : n \in 0 .. MaxUnknownSlots}}

RECURSIVE CommaTexts(_)
CommaTexts(slots) ==
  IF slots = <<>> THEN <<>> ELSE <<",">> \o Head(slots).text \o CommaTexts(Tail(slots))

JsonDigit(n) == IF n = 0 THEN "0" ELSE "1"

\* ToDenseJson of a Point by a schema that has `unknown` more fields after
\* the three slots.
NewerPointJson(x, y, unknown) ==
  IF unknown = <<>> THEN <<"[", JsonDigit(x), ",", JsonDigit(y), "]">>
  ELSE <<"[", JsonDigit(x), ",", JsonDigit(y), ",", "0">> \o CommaTexts(unknown) \o <<"]">>

\* soia::Parse<Point>(json, policy) on a text that does not start with "soia".
ParsePointJson ==
  /\ parse.pc = "start"
  /\ parse.target = "Point"
  /\ ~IsSoia(tokenizer.chars)
  /\ \E parsed \in {PointJsonParse(JsonNext(tokenizer))} :
     \E tok \in {ParseReturn(parsed.tokenizer)} :
       /\ tokenizer' = tok
       /\ parse' = [parse EXCEPT !.pc = Pc(tok, "done"),
                                 !.out = IF tok.status.ok THEN <<parsed.out>> ELSE <<>>,
                                 !.status = tok.status]
  /\ UNCHANGED keyedVars
  /\ UNCHANGED codecVars

InitStructJson ==
  /\ ki = DefaultKeyedItems
  /\ hash = [key \in 1 .. MaxKey + 1 |-> 0]
  /\ op = "keyed_items"
  /\ halted = "running"
  /\ byte_sink = NoSink
  /\ result = NoResult
  /\ byte_source = NoSource
  /\ phase = "input"
  /\ \E point \in PointJsonInputs, keep \in BOOLEAN :
       /\ input = [type |-> "Point", value |-> point]
       /\ tokenizer = [NewJsonTokenizer(NewerPointJson(point[1], point[2], point[3]), "NUL")
                         EXCEPT !.keep_unrecognized_fields_ = keep]
  /\ parse = [NoParse EXCEPT !.target = "Point", !.pc = "start"]

NextStruct ==
  \/ ParsePointBytes
  \/ ReencodePoint
  \/ ParsePointJson

\* A Point of a newer schema arrives in binary or in dense JSON.
SpecStruct == (InitStruct \/ InitStructJson) /\ [][NextStruct]_vars

----------------------------------------------------------------------------
\* Properties of the unrecognized fields

\* C14: an encoding of a struct with slots the decoding schema does not
\* know, decoded with kKeep, is decoded without error and re-encoded to the
\* bytes it was decoded from.
C14_KeepReencodesOriginal ==
  (/\ input.type = "Point"
   /\ byte_source.keep_unrecognized_fields
   /\ Len(input.value[3]) >= 1
   /\ phase \in {"parsed", "reencoded"}) =>
    (result.ok /\ (phase = "parsed" \/ ToByteString(byte_sink) = kSoia \o byte_source.bytes))

\* C28: decoding under kKeep the binary array of a struct that has more
\* slots than the known ones and the removed one, ParseUnrecognizedFields
\* reads the values that are left in the array and no more: it raises no
\* error and leaves the source at the first byte after the struct.
C28_KeepConsumesRemainingSlots ==
  (/\ input.type = "Point"
   /\ byte_source.keep_unrecognized_fields
   /\ Len(input.value[3]) >= 1
   /\ phase = "parsed") =>
    (~byte_source.error /\ byte_source.pos = Len(byte_source.bytes))

\* A binary encoding of a struct with slots the decoding schema does not
\* know, decoded with kDrop, is decoded without error to the value that the
\* encoding without those slots gives, with no unrecognized fields, and the
\* source is left at the end of the struct.
DropDiscardsUnknownBinarySlots ==
  (/\ input.type = "Point"
   /\ ~byte_source.keep_unrecognized_fields
   /\ phase \in {"parsed", "reencoded"}) =>
    /\ result.ok
    /\ result.value = <<[DefaultPoint EXCEPT !.x = input.value[1], !.y = input.value[2]]>>
    /\ ~byte_source.error
    /\ byte_source.pos = Len(byte_source.bytes)

\* The Point {1, 300} followed by the removed slot, an array of four values
\* and an enum was decoded with kDrop.
C15_UnknownArrayDropped ==
  /\ phase = "parsed"
  /\ ~byte_source.keep_unrecognized_fields
  /\ byte_source.bytes = <<250, 5, 1, 232, 44, 1, 0,
                           250, 4, 1, 0, 243, 1, 97, 247, 2, 251, 243, 1, 97>>
  /\ byte_source.pos = 20
  /\ result.ok

\* The slots with an object in them.
HasObject(unknown) == \E i \in 1 .. Len(unknown) : "{" \in {unknown[i].text[j] : j \in 1 .. Len(unknown[i].text)}

RECURSIVE Captured(_)
Captured(unknown) ==
  IF unknown = <<>> THEN NewUnrecognizedValues
  ELSE [bytes_ |-> Head(unknown).bytes_ \o Captured(Tail(unknown)).bytes_,
        array_lengths_ |-> Head(unknown).array_lengths_
                             \o Captured(Tail(unknown)).array_lengths_]

\* A dense JSON of a struct with slots the decoding schema does not know,
\* decoded with kDrop, is decoded without error to the value that the JSON
\* without those slots gives, with no unrecognized fields, and the tokenizer
\* is left at the end of the text.
DropDiscardsUnknownJsonSlots ==
  (/\ parse.target = "Point"
   /\ ~tokenizer.keep_unrecognized_fields_
   /\ parse.pc = "done") =>
    /\ parse.status.ok
    /\ parse.out = <<[DefaultPoint EXCEPT !.x = Int64Of(input.value[1]),
                                          !.y = Int64Of(input.value[2])]>>
    /\ tokenizer.token_type = "kStrEnd"
    /\ tokenizer.pos = Len(tokenizer.chars)

\* C15: decoding with kDrop a struct, in binary or in dense JSON, that has
\* slots the schema does not know succeeds, gives the value that the encoding
\* without those slots gives, keeps no unrecognized data and leaves the input
\* right after the struct.
C15_DropDiscardsUnknownSlots ==
  /\ DropDiscardsUnknownBinarySlots
  /\ DropDiscardsUnknownJsonSlots

\* [1,0,0,{"x":1},[0,{},1]] was decoded with kDrop.
UnknownObjectDropped ==
  /\ parse.pc = "done"
  /\ ~tokenizer.keep_unrecognized_fields_
  /\ tokenizer.chars = <<"[", "1", ",", "0", ",", "0", ",",
                         "{", "\"", "x", "\"", ":", "1", "}", ",",
                         "[", "0", ",", "{", "}", ",", "1", "]", "]">>
  /\ parse.status.ok

\* C16: with kKeep, a dense JSON of a struct whose unknown slots hold or
\* contain an object is decoded without error, each object captured as 0 and
\* the other unknown values, and the lengths of the arrays, as they are.
C16_ObjectCapturedAsZero ==
  (/\ parse.target = "Point"
   /\ tokenizer.keep_unrecognized_fields_
   /\ parse.pc = "done"
   /\ HasObject(input.value[3])) =>
    /\ parse.status.ok
    /\ parse.out = <<[x |-> Int64Of(input.value[1]), y |-> Int64Of(input.value[2]),
                      unrecognized |->
                        <<[array_len |-> kNumSlotsInclRemoved + Len(input.value[3]),
                           values |-> Captured(input.value[3])]>>]>>

\* With kKeep, unknown slots without an object are captured as they are.
KeepCapturesJsonSlots ==
  (/\ parse.target = "Point"
   /\ tokenizer.keep_unrecognized_fields_
   /\ parse.pc = "done"
   /\ input.value[3] # <<>>
   /\ ~HasObject(input.value[3])) =>
    /\ parse.status.ok
    /\ parse.out = <<[x |-> Int64Of(input.value[1]), y |-> Int64Of(input.value[2]),
                      unrecognized |->
                        <<[array_len |-> kNumSlotsInclRemoved + Len(input.value[3]),
                           values |-> Captured(input.value[3])]>>]>>

----------------------------------------------------------------------------
\* The operations of a ByteSource and the Parse functions of the adapters,
\* called in any order on any bytes: what a decoder does with its source.

\* ByteSource::CheckEnd
CheckEnd(source) == IF source.pos > Len(source.bytes) THEN RaiseError(source) ELSE source

\* The bytes of the sources: small numbers, the wires of the numbers with
\* bytes after them, of a string, of arrays, of an enum and of an optional.
SourceBytes == {0, 1, 232, 235, 243, 245, 248, 250, 255}
MaxSourceLen == 3
Sources == UNION {[1 .. n -> SourceBytes] : n \in 0 .. MaxSourceLen}

\* The numbers of bytes TryAdvance is called with.
Advances == 0 .. 2

\* The types whose adapter Parse is called.
AdapterTypes == {"bool", "int32", "int64", "uint64", "string", "int32?", "int32[]"}

\* The phase after an operation: its name, and whether the error flag was
\* set when it was called.
After(name, after_error) == IF byte_source.error THEN after_error ELSE name

SourceReadWire ==
  /\ phase \in {"source", "read", "read after error"}
  /\ \E read \in {ReadWire(byte_source)} :
       /\ byte_source' = read.source
       /\ result' = [NoResult EXCEPT !.ok = ~read.source.error, !.value = <<read.wire>>]
  /\ phase' = After("read", "read after error")
  /\ UNCHANGED <<input, byte_sink>>
  /\ UNCHANGED keyedVars
  /\ UNCHANGED jsonVars

SourcePeekWire ==
  /\ phase \in {"source", "read", "read after error"}
  /\ \E peeked \in {PeekWire(byte_source)} :
       /\ byte_source' = peeked.source
       /\ result' = [NoResult EXCEPT !.ok = ~peeked.source.error, !.value = <<peeked.wire>>]
  /\ phase' = After("read", "read after error")
  /\ UNCHANGED <<input, byte_sink>>
  /\ UNCHANGED keyedVars
  /\ UNCHANGED jsonVars

SourceTryAdvance ==
  /\ phase \in {"source", "read", "read after error"}
  /\ \E n \in Advances : byte_source' = TryAdvance(byte_source, n)
  /\ result' = [NoResult EXCEPT !.ok = ~byte_source'.error, !.value = <<0>>]
  /\ phase' = After("read", "read after error")
  /\ UNCHANGED <<input, byte_sink>>
  /\ UNCHANGED keyedVars
  /\ UNCHANGED jsonVars

SourceCheckEnd ==
  /\ phase \in {"source", "read", "read after error"}
  /\ byte_source' = CheckEnd(byte_source)
  /\ result' = [NoResult EXCEPT !.ok = ~byte_source'.error, !.value = <<0>>]
  /\ phase' = After("read", "read after error")
  /\ UNCHANGED <<input, byte_sink>>
  /\ UNCHANGED keyedVars
  /\ UNCHANGED jsonVars

\* Parse(source, out) of an adapter, out being a default value.
SourceAdapterParse ==
  /\ phase \in {"source", "read", "read after error"}
  /\ \E type \in AdapterTypes :
       byte_source' = ParseValue(type, byte_source, DefaultValue(type)).source
  /\ result' = [NoResult EXCEPT !.ok = ~byte_source'.error, !.value = <<0>>]
  /\ phase' = After("read", "read after error")
  /\ UNCHANGED <<input, byte_sink>>
  /\ UNCHANGED keyedVars
  /\ UNCHANGED jsonVars

\* SkipValue(source), and ParseFrom(source) of an UnrecognizedValues.
SourceSkipOrCapture ==
  /\ phase \in {"source", "read", "read after error"}
  /\ \/ byte_source' = SkipValue(byte_source)
     \/ byte_source' = ParseFrom(byte_source, NewUnrecognizedValues).source
  /\ result' = [NoResult EXCEPT !.ok = ~byte_source'.error, !.value = <<0>>]
  /\ phase' = After("read", "read after error")
  /\ UNCHANGED <<input, byte_sink>>
  /\ UNCHANGED keyedVars
  /\ UNCHANGED jsonVars

InitSource ==
  /\ ki = DefaultKeyedItems
  /\ hash = [key \in 1 .. MaxKey + 1 |-> 0]
  /\ op = "keyed_items"
  /\ halted = "running"
  /\ input = NoValue
  /\ byte_sink = NoSink
  /\ result = NoResult
  /\ \E bytes \in Sources : byte_source = NewByteSource(bytes)
  /\ phase = "source"
  /\ tokenizer = NoTokenizer
  /\ parse = NoParse

NextSource ==
  \/ SourceReadWire
  \/ SourcePeekWire
  \/ SourceTryAdvance
  \/ SourceCheckEnd
  \/ SourceAdapterParse
  \/ SourceSkipOrCapture

SpecSource == InitSource /\ [][NextSource]_vars

\* The source is at the end of its input, and ReadWire and PeekWire return 0
\* and leave it as it is.
AtEndWithError(source) ==
  /\ source.error
  /\ source.pos = Len(source.bytes)
  /\ ReadWire(source) = [wire |-> 0, source |-> source]
  /\ PeekWire(source) = [wire |-> 0, source |-> source]

\* C18: once the error flag of a ByteSource is set, it stays set and the
\* cursor stays at the end of the input whatever is called next (ReadWire,
\* PeekWire, TryAdvance, CheckEnd, the Parse of an adapter, SkipValue,
\* ParseFrom), and ReadWire and PeekWire return 0.
C18_ErrorIsSticky ==
  /\ [](byte_source.error => AtEndWithError(byte_source))
  /\ [][byte_source.error => byte_source' = byte_source]_vars

\* The source of a string cut before its one byte has its error flag set,
\* and something was called on it after the flag was set.
C18_CalledAfterError ==
  /\ phase = "read after error"
  /\ byte_source.bytes = <<243, 1>>
  /\ byte_source.error
  /\ byte_source.pos = 2

----------------------------------------------------------------------------
\* Top-level Parse on any input, binary or JSON

\* soia::Parse<T>(bytes) on any bytes after "soia": the error, or the value.
ParseBytes ==
  /\ phase = "received"
  /\ input.type \in AdapterTypes
  /\ \E parsed \in {ParseValue(input.type, byte_source, DefaultValue(input.type))} :
       /\ byte_source' = parsed.source
       /\ result' =
            IF parsed.source.error \/ parsed.source.pos < Len(parsed.source.bytes)
            THEN [ok |-> FALSE, value |-> <<>>, unmodelled |-> parsed.source.unmodelled]
            ELSE [ok |-> TRUE, value |-> <<parsed.out>>,
                  unmodelled |-> parsed.source.unmodelled]
  /\ phase' = "parsed"
  /\ UNCHANGED <<input, byte_sink>>
  /\ UNCHANGED keyedVars
  /\ UNCHANGED jsonVars

\* The characters of the texts given to Parse: those of the JSON texts, and
\* the character NUL, which a string_view can hold.
ParseChars == JsonChars \cup {"NUL"}
ParseTexts == UNION {[1 .. n -> ParseChars] : n \in 0 .. MaxJsonLen}

InitParse ==
  /\ ki = DefaultKeyedItems
  /\ hash = [key \in 1 .. MaxKey + 1 |-> 0]
  /\ op = "keyed_items"
  /\ halted = "running"
  /\ byte_sink = NoSink
  /\ result = NoResult
  /\ \/ /\ input = NoValue
        /\ byte_source = NoSource
        /\ phase = "input"
        /\ \E chars \in ParseTexts, beyond \in Beyonds :
             tokenizer = NewJsonTokenizer(chars, beyond)
        /\ \E target \in Targets :
             parse = [NoParse EXCEPT !.target = target, !.pc = "start"]
     \/ /\ \E type \in AdapterTypes : input = [type |-> type, value |-> DefaultValue(type)]
        /\ \E bytes \in Sources : byte_source = NewByteSource(bytes)
        /\ phase = "received"
        /\ tokenizer = NoTokenizer
        /\ parse = NoParse

NextParse ==
  \/ ParseJson
  \/ ArrayParseLoop
  \/ ParseBytes

SpecParse == InitParse /\ [][NextParse]_vars

\* Something other than white space is left in the text at the position of
\* the tokenizer.
InputRemains(state) ==
  \E i \in state.pos + 1 .. Len(state.chars) : state.chars[i] \notin {" ", "\t", "\n", "\r"}

\* Parse of a JSON text has returned: an error and no value if the status was
\* not OK at some point or input remains after the value.
JsonParseReturnsValueOrError ==
  (parse.target \in Targets /\ parse.pc = "done") =>
    /\ parse.status.ok \/ parse.out = <<>>
    /\ (~tokenizer.first_status.ok \/ InputRemains(tokenizer)) => ~parse.status.ok

\* Parse of bytes has returned: an error and no value if the error flag of the
\* source was set or bytes remain after the value.
BytesParseReturnsValueOrError ==
  (input.type \in AdapterTypes /\ phase = "parsed") =>
    /\ result.ok \/ result.value = <<>>
    /\ (byte_source.error \/ byte_source.pos < Len(byte_source.bytes)) => ~result.ok

\* C19: top-level Parse returns a value or one error: an error and no value
\* whenever the error flag of the byte source was set, the status of the
\* tokenizer was not OK at some point, or input remains after the value; a
\* value only when the whole input was decoded without error.
C19_ValueOrError ==
  /\ JsonParseReturnsValueOrError
  /\ BytesParseReturnsValueOrError

----------------------------------------------------------------------------
\* Truncated binary input

\* Parse<T>(p), p being "soia" and the first n bytes of what ToBytes wrote
\* after it, some bytes missing at the end.
ParseTruncated ==
  /\ phase = "encoded"
  /\ ~byte_sink.overrun
  /\ \E n \in 0 .. Len(Payload) - 1 :
     \E parsed \in {ParseValue(input.type, NewByteSource(SubSeq(Payload, 1, n)),
                                DefaultValue(input.type))} :
       /\ byte_source' = parsed.source
       /\ result' =
            IF parsed.source.error \/ parsed.source.pos < Len(parsed.source.bytes)
            THEN [ok |-> FALSE, value |-> <<>>, unmodelled |-> parsed.source.unmodelled]
            ELSE [ok |-> TRUE, value |-> <<parsed.out>>,
                  unmodelled |-> parsed.source.unmodelled]
  /\ phase' = "parsed prefix"
  /\ UNCHANGED <<input, byte_sink>>
  /\ UNCHANGED keyedVars
  /\ UNCHANGED jsonVars

NextTruncated ==
  \/ ToBytes
  \/ ParseTruncated

SpecTruncated == InitCodec /\ [][NextTruncated]_vars

\* C20: Parse of "soia" followed by a strict prefix of the bytes ToBytes
\* wrote for a value, the empty prefix included, returns an error.
C20_TruncatedIsError ==
  phase = "parsed prefix" =>
    /\ ~result.ok
    /\ byte_source.error
    /\ Len(byte_source.bytes) < Len(Payload)

\* The encoding of an array of three numbers was cut in the middle of the
\* last one.
C20_ArrayCutInItem ==
  /\ phase = "parsed prefix"
  /\ byte_source.bytes = <<249, 1, 0, 232, 44>>
  /\ ~result.ok

----------------------------------------------------------------------------
\* JSON integer literals of any size

\* The limbs of the numbers whose decimal digits the literals are made of:
\* around 0, 2^31, 2^32, 2^63 and 2^64.
LiteralLimbs1 == {0, 1, LimbBase - 1}
LiteralLimbs2 == {0, LimbBase \div 2 - 1, LimbBase \div 2, LimbBase - 1}
LiteralLimbs3 == {0, 1}
LiteralLimbs4 == {0, LimbBase \div 2 - 1, LimbBase \div 2, LimbBase - 1}

\* A literal: a sign or none, the digits of a number, and one more digit or
\* none, which makes the largest numbers ten times too large for 64 bits.
Literals(signs) ==
  {[negative |-> negative,
    digits |-> StrAppendUnsigned(<<a, b, c, d>>) \o more] :
     negative \in signs, a \in LiteralLimbs1, b \in LiteralLimbs2,
     c \in LiteralLimbs3, d \in LiteralLimbs4, more \in {<<>>, <<"0">>, <<"6">>}}

LiteralText(literal) == (IF literal.negative THEN <<"-">> ELSE <<>>) \o literal.digits

\* The digits without the zeros they start with.
RECURSIVE Stripped(_)
Stripped(digits) ==
  IF digits # <<>> /\ Head(digits) = "0" THEN Stripped(Tail(digits)) ELSE digits

\* a <= b for numbers written without leading zeros, digit by digit.
RECURSIVE DigitsLeq(_, _)
DigitsLeq(a, b) ==
  IF Len(a) # Len(b) THEN Len(a) < Len(b)
  ELSE IF a = <<>> THEN TRUE
  ELSE IF Head(a) # Head(b) THEN DigitValue(Head(a)) < DigitValue(Head(b))
  ELSE DigitsLeq(Tail(a), Tail(b))

\* The number the literal writes is a value of the type.
Fits(number, literal) ==
  LET magnitude == Stripped(literal.digits)
      largest ==
        CASE number = "uint64" ->
               IF literal.negative THEN <<>>
               ELSE StrAppendUnsigned(<<LimbBase - 1, LimbBase - 1, LimbBase - 1, LimbBase - 1>>)
          [] number = "int64" ->
               IF literal.negative THEN StrAppendUnsigned(<<0, 0, 0, LimbBase \div 2>>)
               ELSE StrAppendUnsigned(<<LimbBase - 1, LimbBase - 1, LimbBase - 1,
                                        LimbBase \div 2 - 1>>)
          [] number = "int32" ->
               IF literal.negative THEN StrAppendUnsigned(<<0, LimbBase \div 2, 0, 0>>)
               ELSE StrAppendUnsigned(<<LimbBase - 1, LimbBase \div 2 - 1, 0, 0>>) IN
  DigitsLeq(magnitude, largest)

\* Parse<T>(literal) for an integer type T: the text is a std::string.
InitJsonNumber ==
  /\ ki = DefaultKeyedItems
  /\ hash = [key \in 1 .. MaxKey + 1 |-> 0]
  /\ op = "keyed_items"
  /\ halted = "running"
  /\ byte_sink = NoSink
  /\ result = NoResult
  /\ byte_source = NoSource
  /\ phase = "input"
  /\ \E literal \in Literals(BOOLEAN), target \in NumberTargets :
       /\ input = [type |-> target, value |-> literal]
       /\ tokenizer = NewJsonTokenizer(LiteralText(literal), "NUL")
       /\ parse = [NoParse EXCEPT !.target = target, !.pc = "start"]

NextJsonNumber == ParseJson

SpecJsonNumber == InitJsonNumber /\ [][NextJsonNumber]_vars

\* C21: a JSON integer literal that does not fit in 64 bits, or whose number
\* is no value of the integer type that is parsed, makes Parse fail.
C21_OverflowIsError ==
  (parse.pc = "done" /\ parse.target \in NumberTargets /\ ~Fits(parse.target, input.value))
    => ~parse.status.ok

\* A literal that fits is parsed without error.
FittingLiteralParsed ==
  (parse.pc = "done" /\ parse.target \in NumberTargets /\ Fits(parse.target, input.value))
    => parse.status.ok

----------------------------------------------------------------------------
\* SkipValue on well-formed JSON values

JsonScalars ==
  {<<"0">>, <<"1">>, <<"-", "1">>, <<"1", ".", "5">>, <<"\"", "x", "\"">>,
   <<"t", "r", "u", "e">>, <<"n", "u", "l", "l">>}

\* What is written between two elements: a comma, alone or in white space.
Separators == {<<",">>, <<" ", ",", "\n">>}

\* The numbers of elements of the arrays and of entries of the objects.
ItemCounts == 0 .. 2

RECURSIVE Join(_, _)
Join(texts, separator) ==
  IF texts = <<>> THEN <<>>
  ELSE IF Len(texts) = 1 THEN texts[1]
  ELSE texts[1] \o separator \o Join(Tail(texts), separator)

ItemsOf(values) == UNION {[1 .. n -> values] : n \in ItemCounts}

ArraysOf(values) ==
  {<<"[">> \o Join(items, separator) \o <<"]">> :
     items \in ItemsOf(values), separator \in Separators}

ObjectsOf(values) ==
  {<<"{">> \o Join([i \in 1 .. Len(items) |-> <<"\"", "x", "\"", ":">> \o items[i]],
                    separator) \o <<"}">> :
     items \in ItemsOf(values), separator \in Separators}

\* The well-formed values: scalars, arrays and objects of scalars, arrays
\* and objects of those.
ItemScalars == {<<"1">>, <<"\"", "x", "\"">>, <<"n", "u", "l", "l">>}
FlatValues(scalars) == scalars \cup ArraysOf(ItemScalars) \cup ObjectsOf(ItemScalars)
WellFormedValues(scalars) ==
  FlatValues(scalars) \cup ArraysOf(FlatValues(scalars)) \cup ObjectsOf(FlatValues(scalars))

\* What follows the value in the text: nothing, or the next token of the
\* array or of the object the value is in.
Followers == {<<>>, <<",">>, <<"]">>, <<"}">>}

\* CheckJsonValueIsSkippable: tokenizer.Next(), SkipValue(tokenizer).
SkipJson ==
  /\ parse.pc = "start"
  /\ parse.target = "skipped"
  /\ \E tok \in {SkipJsonValue(JsonNext(tokenizer))} :
       /\ tokenizer' = tok
       /\ parse' = [parse EXCEPT !.pc = Pc(tok, "done"), !.status = tok.status]
  /\ UNCHANGED keyedVars
  /\ UNCHANGED codecVars

InitSkipJson ==
  /\ ki = DefaultKeyedItems
  /\ hash = [key \in 1 .. MaxKey + 1 |-> 0]
  /\ op = "keyed_items"
  /\ halted = "running"
  /\ byte_sink = NoSink
  /\ result = NoResult
  /\ byte_source = NoSource
  /\ phase = "input"
  /\ \E value \in WellFormedValues(JsonScalars), follower \in Followers, beyond \in Beyonds :
       /\ input = [type |-> "json", value |-> <<value, follower>>]
       /\ tokenizer = NewJsonTokenizer(value \o follower, beyond)
  /\ parse = [NoParse EXCEPT !.target = "skipped", !.pc = "start"]

NextSkipJson == SkipJson

SpecSkipJson == InitSkipJson /\ [][NextSkipJson]_vars

\* C22: SkipValue on a well-formed JSON value, of any nesting of arrays and
\* objects, leaves the tokenizer with status OK on the first token after the
\* value: the end of the input when the value is the whole input.
C22_SkipJsonConsumesOneValue ==
  (parse.target = "skipped" /\ parse.pc # "start") =>
    /\ parse.pc = "done"
    /\ tokenizer.status.ok
    /\ tokenizer.token_type =
         (CASE input.value[2] = <<>> -> "kStrEnd"
            [] input.value[2] = <<",">> -> "kComma"
            [] input.value[2] = <<"]">> -> "kRightSquareBracket"
            [] input.value[2] = <<"}">> -> "kRightCurlyBracket")
    /\ tokenizer.pos = Len(tokenizer.chars)

\* An object that holds an array, followed by a comma, was skipped.
C22_NestedObjectSkipped ==
  /\ parse.target = "skipped"
  /\ parse.pc = "done"
  /\ tokenizer.chars = <<"{", "\"", "x", "\"", ":", "[", "1", ",", "n", "u", "l", "l", "]",
                         "}", ",">>
  /\ tokenizer.token_type = "kComma"

(***************************************************************************)
(* TimestampAdapter::Append.  A timestamp is the int64_t that              *)
(* absl::ToUnixMillis gives for it.                                        *)
(***************************************************************************)
\* 8640000000000000 and -8640000000000000
kMaxUnixMillis == <<0, 49884, 45576, 30>>
kMinUnixMillis == <<0, 15652, 19959, 65505>>

\* ClampUnixMillis: std::min(std::max(unix_millis, -8640000000000000),
\* 8640000000000000)
ClampUnixMillis(unix_millis) ==
  With(IF SignedLess(unix_millis, kMinUnixMillis) THEN kMinUnixMillis ELSE unix_millis,
       LAMBDA max : IF SignedLess(kMaxUnixMillis, max) THEN kMaxUnixMillis ELSE max)

\* TimestampAdapter::Append(absl::Time, DenseJson&)
TimestampAppendDenseJson(unix_millis) == StrAppendSigned(ClampUnixMillis(unix_millis))

\* TimestampAdapter::Append(absl::Time, ReadableJson&): the number after
\* "unix_millis": ; the formatted date is not computed.
TimestampAppendReadableJson(unix_millis) == StrAppendSigned(ClampUnixMillis(unix_millis))

\* TimestampAdapter::Append(absl::Time, DebugString&): the number after
\* absl::FromUnixMillis( ; the formatted date is not computed.
TimestampAppendDebugString(unix_millis) == StrAppendSigned(unix_millis)

\* TimestampAdapter::Append(absl::Time, ByteSink&)
TimestampAppend(input_millis, out) ==
  With(ClampUnixMillis(input_millis), LAMBDA unix_millis :
    IF unix_millis # Int64Of(0) THEN AppendWiredUint64(239, unix_millis, out)
    ELSE Push(out, <<0>>))

\* The limbs the timestamps are made of: those of the two limits, their
\* neighbours and the extremes.
TimestampLimbs ==
  <<{0, 1, LimbBase - 1},
    {0, 15651, 15652, 15653, 49883, 49884, 49885},
    {0, 19959, 45576, LimbBase - 1},
    {0, 30, 31, 32767, 32768, 65504, 65505, LimbBase - 1}>>

Timestamps ==
  {<<a, b, c, d>> : a \in TimestampLimbs[1], b \in TimestampLimbs[2],
                    c \in TimestampLimbs[3], d \in TimestampLimbs[4]}

\* soia::ToDenseJson(input)
TimestampToDenseJson ==
  /\ phase = "input"
  /\ result' = [NoResult EXCEPT !.value = TimestampAppendDenseJson(input.value)]
  /\ phase' = "dense json"
  /\ UNCHANGED <<input, byte_sink, byte_source>>
  /\ UNCHANGED keyedVars
  /\ UNCHANGED jsonVars

\* soia::ToReadableJson(input)
TimestampToReadableJson ==
  /\ phase = "input"
  /\ result' = [NoResult EXCEPT !.value = TimestampAppendReadableJson(input.value)]
  /\ phase' = "readable json"
  /\ UNCHANGED <<input, byte_sink, byte_source>>
  /\ UNCHANGED keyedVars
  /\ UNCHANGED jsonVars

\* soia_internal::ToDebugString(input)
TimestampToDebugString ==
  /\ phase = "input"
  /\ result' = [NoResult EXCEPT !.value = TimestampAppendDebugString(input.value)]
  /\ phase' = "debug string"
  /\ UNCHANGED <<input, byte_sink, byte_source>>
  /\ UNCHANGED keyedVars
  /\ UNCHANGED jsonVars

\* soia::ToBytes(input)
TimestampToBytes ==
  /\ phase = "input"
  /\ byte_sink' = TimestampAppend(input.value, Push(NewByteSink, kSoia))
  /\ phase' = "encoded"
  /\ UNCHANGED <<input, result, byte_source>>
  /\ UNCHANGED keyedVars
  /\ UNCHANGED jsonVars

InitTimestamp ==
  /\ ki = DefaultKeyedItems
  /\ hash = [key \in 1 .. MaxKey + 1 |-> 0]
  /\ op = "keyed_items"
  /\ halted = "running"
  /\ input \in {[type |-> "timestamp", value |-> t] : t \in Timestamps}
  /\ byte_sink = NoSink
  /\ result = NoResult
  /\ byte_source = NoSource
  /\ phase = "input"
  /\ tokenizer = NoTokenizer
  /\ parse = NoParse

NextTimestamp ==
  \/ TimestampToDenseJson
  \/ TimestampToReadableJson
  \/ TimestampToDebugString
  \/ TimestampToBytes

SpecTimestamp == InitTimestamp /\ [][NextTimestamp]_vars

\* The millisecond count of the range -8640000000000000 .. 8640000000000000
\* that is the nearest to the one of the input.
Clamped ==
  CASE SignedLess(input.value, kMinUnixMillis) -> kMinUnixMillis
    [] SignedLess(kMaxUnixMillis, input.value) -> kMaxUnixMillis
    [] OTHER -> input.value

\* The dense JSON, the readable JSON and the bytes of a timestamp hold its
\* millisecond count clamped to -8640000000000000 .. 8640000000000000.
ClampedInJsonAndBytes ==
  /\ phase \in {"dense json", "readable json"} => result.value = StrAppendSigned(Clamped)
  /\ phase = "encoded" =>
       Payload = (IF Clamped = Int64Of(0) THEN <<0>> ELSE <<239>> \o BytesOf(Clamped, 8))

\* C25: every encoding of a timestamp, dense JSON, readable JSON, bytes and
\* debug string, holds the millisecond count of the timestamp clamped to
\* -8640000000000000 .. 8640000000000000.
C25_ClampedOnEveryPath ==
  /\ ClampedInJsonAndBytes
  /\ phase = "debug string" => result.value = StrAppendSigned(Clamped)
====
